---- MODULE Spec2Model ----
(***************************************************************************)
(* Model of the permission engine of pydantic_ai_backends:                 *)
(*   permissions/types.py    PermissionRule, OperationPermissions,         *)
(*                           PermissionRuleset.get_operation_permissions   *)
(*   permissions/checker.py  _glob_to_regex, _matches_pattern,             *)
(*                           PermissionChecker (check_sync, check, is_*,   *)
(*                           _find_matching_rule), the two exceptions      *)
(*                                                                         *)
(* Strings are sequences of one-character strings.  An optional value is   *)
(* None (the empty sequence) or Some(x) (a one-element sequence).          *)
(***************************************************************************)
EXTENDS Integers, Sequences, FiniteSets, TLC

None == <<>>

Some(x) == <<x>>

(***************************************************************************)
(* Characters.  Ord gives the code point of every character the model's    *)
(* patterns and targets are written with.                                  *)
(***************************************************************************)
Lower ==
  <<"a", "b", "c", "d", "e", "f", "g", "h", "i", "j", "k", "l", "m", "n", "o",
    "p", "q", "r", "s", "t", "u", "v", "w", "x", "y", "z">>

Digits == <<"0", "1", "2", "3", "4", "5", "6", "7", "8", "9">>

\* The position of c in the sequence s
IndexOf(s, c) == CHOOSE k \in 1..Len(s) : s[k] = c

Ord ==
  ("\n" :> 10) @@ (" " :> 32) @@ ("!" :> 33) @@ ("$" :> 36) @@ ("&" :> 38) @@
  ("(" :> 40) @@ (")" :> 41) @@ ("*" :> 42) @@ ("-" :> 45) @@ ("." :> 46) @@
  ("/" :> 47) @@ (":" :> 58) @@ (";" :> 59) @@ ("=" :> 61) @@ (">" :> 62) @@
  ("?" :> 63) @@ ("R" :> 82) @@ ("[" :> 91) @@ ("\\" :> 92) @@ ("]" :> 93) @@
  ("^" :> 94) @@ ("{" :> 123) @@ ("|" :> 124) @@ ("}" :> 125) @@
  [c \in {Digits[k] : k \in 1..Len(Digits)} |-> 47 + IndexOf(Digits, c)] @@
  [c \in {Lower[k] : k \in 1..Len(Lower)} |-> 96 + IndexOf(Lower, c)]

Chars == DOMAIN Ord

Codes == 0..127

\* re.escape (Python >= 3.7): only these characters get a backslash.
ReSpecialChars ==
  {"(", ")", "[", "]", "{", "}", "?", "*", "+", "-", "|", "^", "$", "\\",
   ".", "&", "~", "#", " ", "\t", "\n", "\r"}

re_escape(c) == IF c \in ReSpecialChars THEN <<"\\", c>> ELSE <<c>>

(***************************************************************************)
(* _glob_to_regex, the scanner: pattern -> regex_str.  Positions are       *)
(* 1-based here, 0-based in the source (i < n  becomes  i <= Len).         *)
(***************************************************************************)
RECURSIVE ScanToBracket(_, _)
\* while j < n and pattern[j] != "]": j += 1
ScanToBracket(pattern, j) ==
  IF j <= Len(pattern) /\ pattern[j] # "]"
  THEN ScanToBracket(pattern, j + 1)
  ELSE j

\* The index the scanner stops at for the "[" at position i.
ClassEnd(pattern, i) ==
  LET n  == Len(pattern)
      j0 == i + 1
      j1 == IF j0 <= n /\ pattern[j0] \in {"!", "^"} THEN j0 + 1 ELSE j0
      j2 == IF j1 <= n /\ pattern[j1] = "]" THEN j1 + 1 ELSE j1
  IN  ScanToBracket(pattern, j2)

RECURSIVE RegexParts(_, _)
\* The body of the while loop: "".join(regex_parts) for pattern[i..].
RegexParts(pattern, i) ==
  LET n == Len(pattern)
      c == pattern[i]
  IN
  IF i > n THEN <<>>
  ELSE IF c = "*" THEN
    IF i + 1 <= n /\ pattern[i + 1] = "*" THEN
      IF i + 2 <= n /\ pattern[i + 2] = "/"
      THEN <<"(", "?", ":", ".", "*", "/", ")", "?">> \o RegexParts(pattern, i + 3)
      ELSE <<".", "*">> \o RegexParts(pattern, i + 2)
    ELSE <<"[", "^", "/", "]", "*">> \o RegexParts(pattern, i + 1)
  ELSE IF c = "?" THEN <<"[", "^", "/", "]">> \o RegexParts(pattern, i + 1)
  ELSE IF c = "[" THEN
    LET j == ClassEnd(pattern, i) IN
    IF j <= n
    THEN SubSeq(pattern, i, j) \o RegexParts(pattern, j + 1)
    ELSE re_escape(c) \o RegexParts(pattern, i + 1)
  ELSE re_escape(c) \o RegexParts(pattern, i + 1)

\* regex_str = "^" + "".join(regex_parts) + "$"
regex_str(pattern) == <<"^">> \o RegexParts(pattern, 1) \o <<"$">>

(***************************************************************************)
(* re.compile(regex_str): the part of Python's regular-expression parser   *)
(* that regex_str can exercise.  A compiled pattern is a sequence of       *)
(* nodes; a node matches one character (star: any number of them), an      *)
(* anchor, or the optional group "(?:.*/)?".  A character set is the set   *)
(* of code points it contains.                                             *)
(***************************************************************************)
Node(kind, set, neg, star) ==
  [kind |-> kind, set |-> set, neg |-> neg, star |-> star]

CompileError == [ok |-> FALSE, nodes |-> <<>>]

OctDigits == {"0", "1", "2", "3", "4", "5", "6", "7"}

HexVal ==
  [c \in {Digits[k] : k \in 1..Len(Digits)} |-> IndexOf(Digits, c) - 1] @@
  ("a" :> 10) @@ ("b" :> 11) @@ ("c" :> 12) @@ ("d" :> 13) @@ ("e" :> 14) @@
  ("f" :> 15)

AsciiAlnum ==
  {Lower[k] : k \in 1..Len(Lower)} \cup {Digits[k] : k \in 1..Len(Digits)} \cup {"R"}

\* \a \b \f \n \r \t \v inside a character set
ControlEscapes ==
  ("a" :> 7) @@ ("b" :> 8) @@ ("f" :> 12) @@ ("n" :> 10) @@ ("r" :> 13) @@
  ("t" :> 9) @@ ("v" :> 11)

\* \d, \s and \w inside a character set (code points below 128)
CategoryEscapes ==
  ("d" :> 48..57) @@ ("s" :> {9, 10, 11, 12, 13, 28, 29, 30, 31, 32}) @@
  ("w" :> (48..57) \cup (65..90) \cup {95} \cup (97..122))

Item(ok, lit, set, len) == [ok |-> ok, lit |-> lit, set |-> set, len |-> len]

\* The number of octal digits (at most k) that s holds from position i on.
RECURSIVE OctRun(_, _, _)
OctRun(s, i, k) ==
  IF k > 0 /\ i <= Len(s) /\ s[i] \in OctDigits THEN 1 + OctRun(s, i + 1, k - 1) ELSE 0

RECURSIVE OctValue(_, _, _)
OctValue(s, i, k) ==
  IF k = 0 THEN 0 ELSE 8 * OctValue(s, i, k - 1) + HexVal[s[i + k - 1]]

\* One member of a character set, read at position i: a plain character or
\* a backslash escape (sre_parse._class_escape).  lit: it is one code point.
ClassItem(s, i) ==
  IF s[i] # "\\" THEN Item(TRUE, TRUE, {Ord[s[i]]}, 1)
  ELSE IF i + 1 > Len(s) THEN Item(FALSE, FALSE, {}, 1)
  ELSE LET c == s[i + 1] IN
    IF c \in DOMAIN CategoryEscapes THEN Item(TRUE, FALSE, CategoryEscapes[c], 2)
    ELSE IF c \in DOMAIN ControlEscapes THEN Item(TRUE, TRUE, {ControlEscapes[c]}, 2)
    ELSE IF c = "x" THEN
      IF i + 3 <= Len(s) /\ s[i + 2] \in DOMAIN HexVal /\ s[i + 3] \in DOMAIN HexVal
      THEN Item(TRUE, TRUE, {16 * HexVal[s[i + 2]] + HexVal[s[i + 3]]}, 4)
      ELSE Item(FALSE, FALSE, {}, 2)
    ELSE IF c = "u" THEN
      IF i + 5 <= Len(s) /\ \A k \in 2..5 : s[i + k] \in DOMAIN HexVal
      THEN Item(TRUE, TRUE, {4096 * HexVal[s[i + 2]] + 256 * HexVal[s[i + 3]]
                               + 16 * HexVal[s[i + 4]] + HexVal[s[i + 5]]}, 6)
      ELSE Item(FALSE, FALSE, {}, 2)
    ELSE IF c \in OctDigits THEN
      LET k == 1 + OctRun(s, i + 2, 2)
          v == OctValue(s, i + 1, k)
      IN  IF v > 255 THEN Item(FALSE, FALSE, {}, 1 + k)
          ELSE Item(TRUE, TRUE, {v}, 1 + k)
    ELSE IF c \in AsciiAlnum THEN Item(FALSE, FALSE, {}, 2)
    ELSE Item(TRUE, TRUE, {Ord[c]}, 2)

OnlyCode(item) == CHOOSE v \in item.set : TRUE

ClassResult(ok, set, next) == [ok |-> ok, set |-> set, next |-> next]

ClassError == ClassResult(FALSE, {}, 0)

RECURSIVE ClassItems(_, _, _, _)
RECURSIVE ClassAfterItem(_, _, _, _)
RECURSIVE ClassRange(_, _, _, _, _)

\* The loop over the members of a character set; i is the position of the
\* next member, acc the code points so far, empty whether none was added.
ClassItems(s, i, acc, empty) ==
  IF i > Len(s) THEN ClassError
  ELSE IF s[i] = "]" /\ ~empty THEN ClassResult(TRUE, acc, i + 1)
  ELSE ClassAfterItem(s, i, acc, ClassItem(s, i))

\* code1 was read at position i: a range follows it, or it is a member.
ClassAfterItem(s, i, acc, code1) ==
  IF ~code1.ok THEN ClassError
  ELSE IF i + code1.len <= Len(s) /\ s[i + code1.len] = "-" THEN
    IF i + code1.len + 1 > Len(s) THEN ClassError
    ELSE IF s[i + code1.len + 1] = "]"
    THEN ClassResult(TRUE, acc \cup code1.set \cup {Ord["-"]}, i + code1.len + 2)
    ELSE ClassRange(s, i + code1.len + 1, acc, code1,
                    ClassItem(s, i + code1.len + 1))
  ELSE ClassItems(s, i + code1.len, acc \cup code1.set, FALSE)

\* The range code1-code2, code2 read at position k.
ClassRange(s, k, acc, code1, code2) ==
  IF ~code2.ok \/ ~code1.lit \/ ~code2.lit THEN ClassError
  ELSE IF OnlyCode(code2) < OnlyCode(code1) THEN ClassError
  ELSE ClassItems(s, k + code2.len, acc \cup (OnlyCode(code1)..OnlyCode(code2)), FALSE)

OptGroupText == <<"(", "?", ":", ".", "*", "/", ")", "?">>

RECURSIVE ParseTop(_, _, _)
RECURSIVE ParseAtom(_, _, _, _)
RECURSIVE ParseSet(_, _, _, _)

\* The parser's top level; i is the position of the next item, acc the
\* nodes so far.
ParseTop(s, i, acc) ==
  IF i > Len(s) THEN [ok |-> TRUE, nodes |-> acc]
  ELSE IF s[i] = "^" THEN ParseTop(s, i + 1, Append(acc, Node("bol", {}, FALSE, FALSE)))
  ELSE IF s[i] = "$" THEN ParseTop(s, i + 1, Append(acc, Node("eol", {}, FALSE, FALSE)))
  ELSE IF s[i] = "(" THEN
    IF i + 7 <= Len(s) /\ SubSeq(s, i, i + 7) = OptGroupText
    THEN ParseTop(s, i + 8, Append(acc, Node("optgroup", {}, FALSE, FALSE)))
    ELSE CompileError
  ELSE IF s[i] = "." THEN ParseAtom(s, i + 1, acc, Node("in", {Ord["\n"]}, TRUE, FALSE))
  ELSE IF s[i] = "[" THEN
    IF i + 1 <= Len(s) /\ s[i + 1] = "^"
    THEN ParseSet(s, acc, TRUE, ClassItems(s, i + 2, {}, TRUE))
    ELSE ParseSet(s, acc, FALSE, ClassItems(s, i + 1, {}, TRUE))
  ELSE IF s[i] = "\\" THEN
    \* re.escape puts a backslash only before a special character
    IF i + 1 > Len(s) THEN CompileError
    ELSE ParseTop(s, i + 2, Append(acc, Node("in", {Ord[s[i + 1]]}, FALSE, FALSE)))
  ELSE ParseTop(s, i + 1, Append(acc, Node("in", {Ord[s[i]]}, FALSE, FALSE)))

\* Mutant: the "^" that leads a character set does not negate it.
ParseSet_NotNegated(s, acc, neg, cls) ==
  IF ~cls.ok THEN CompileError
  ELSE ParseAtom(s, cls.next, acc, Node("in", cls.set, FALSE, FALSE))

\* Mutant: a "!" in a character set negates it, as in fnmatch, and is no
\* member of it.
ParseSet_BangNegates(s, acc, neg, cls) ==
  IF ~cls.ok THEN CompileError
  ELSE ParseAtom(s, cls.next, acc,
                 Node("in", cls.set \ {Ord["!"]}, neg \/ Ord["!"] \in cls.set, FALSE))

\* A character set was read (or "unterminated character set", "bad range").
ParseSet(s, acc, neg, cls) ==
  IF ~cls.ok THEN CompileError
  ELSE ParseAtom(s, cls.next, acc, Node("in", cls.set, neg, FALSE))

\* After "." or a character set: a "*" at position j repeats it.
ParseAtom(s, j, acc, node) ==
  IF j <= Len(s) /\ s[j] = "*"
  THEN ParseTop(s, j + 1, Append(acc, [node EXCEPT !.star = TRUE]))
  ELSE ParseTop(s, j, Append(acc, node))

re_compile(s) == ParseTop(s, 1, <<>>)

\* _glob_to_regex(pattern): the compiled pattern, or the re.error it raises
_glob_to_regex(pattern) == re_compile(regex_str(pattern))

(***************************************************************************)
(* regex.match(target): a match starts at the first character; after each  *)
(* node the matcher can be at any of a set of positions.                   *)
(***************************************************************************)
CharIn(node, ch) == (Ord[ch] \in node.set) # node.neg

\* p..q-1 all match the node
AllIn(node, target, p, q) == \A k \in p..(q - 1) : CharIn(node, target[k])

AnyButNewline == Node("in", {Ord["\n"]}, TRUE, TRUE)

NodeStep(node, target, P) ==
  LET n == Len(target) IN
  CASE node.kind = "bol" -> {p \in P : p = 1}
    [] node.kind = "eol" ->
         {p \in P : p = n + 1 \/ (p = n /\ target[n] = "\n")}
    [] node.kind = "optgroup" ->
         P \cup {q + 1 : q \in {q \in 1..n : target[q] = "/"
                                  /\ \E p \in P : p <= q /\ AllIn(AnyButNewline, target, p, q)}}
    [] node.kind = "in" /\ node.star ->
         {q \in 1..(n + 1) : \E p \in P : p <= q /\ AllIn(node, target, p, q)}
    [] node.kind = "in" /\ ~node.star ->
         {p + 1 : p \in {p \in P : p <= n /\ CharIn(node, target[p])}}

RECURSIVE RunNodes(_, _, _, _)
RunNodes(nodes, k, target, P) ==
  IF k > Len(nodes) \/ P = {} THEN P
  ELSE RunNodes(nodes, k + 1, target, NodeStep(nodes[k], target, P))

\* bool(regex.match(target))
regex_match(regex, target) == RunNodes(regex.nodes, 1, target, {1}) # {}

\* regex.match(target) for what _glob_to_regex returned
MatchCompiled(regex, target) == regex.ok /\ regex_match(regex, target)

\* _matches_pattern(target, pattern), FALSE when compiling the pattern raises
_matches_pattern(target, pattern) == MatchCompiled(_glob_to_regex(pattern), target)

(***************************************************************************)
(* permissions/types.py: the rule model.                                   *)
(***************************************************************************)
PermissionAction == {"allow", "deny", "ask"}

PermissionOperation == {"read", "write", "edit", "execute", "glob", "grep", "ls"}

PermissionRule(pattern, action, description) ==
  [pattern |-> pattern, action |-> action, description |-> description]

OperationPermissions(default, rules) == [default |-> default, rules |-> rules]

\* A ruleset is a record with the fields default, read, write, edit, execute,
\* glob, grep and ls; an operation's field is None or Some(OperationPermissions).
PermissionRuleset(default, perOperation) ==
  [name \in PermissionOperation \cup {"default"} |->
     IF name = "default" THEN default ELSE perOperation[name]]

\* getattr(self, operation, None): None when the attribute is missing or
\* holds None, otherwise Some(the attribute's value).
getattr(self, name) ==
  IF name \in PermissionOperation THEN self[name]
  ELSE IF name = "default" THEN Some(self["default"])
  ELSE None

\* Mutant: the global default replaces the default of a configured operation.
OrDefault_GlobalDefault(self, op_perms) ==
  IF op_perms # None THEN OperationPermissions(self["default"], op_perms[1].rules)
  ELSE OperationPermissions(self["default"], <<>>)

\* Mutant: OperationPermissions() built without default=self.default.
OrDefault_ClassDefault(self, op_perms) ==
  IF op_perms # None THEN op_perms[1]
  ELSE OperationPermissions("allow", <<>>)

\* if op_perms is not None: return op_perms; else the degenerate permissions
OrDefault(self, op_perms) ==
  IF op_perms # None THEN op_perms[1]
  ELSE OperationPermissions(self["default"], <<>>)

get_operation_permissions(self, operation) == OrDefault(self, getattr(self, operation))

(***************************************************************************)
(* permissions/checker.py: outcomes of a call (a returned value or a       *)
(* raised exception) and the two exception classes.                        *)
(***************************************************************************)
Return(value) == [kind |-> "return", value |-> value]

Raise(exc) == [kind |-> "raise", exc |-> exc]

\* PermissionError(operation, target, reason)
PermissionError(operation, target, reason) ==
  [kind |-> "raise", exc |-> "PermissionError", operation |-> operation,
   target |-> target, reason |-> reason]

\* PermissionDeniedError(operation, target, rule); rule is None or Some(rule)
PermissionDeniedError(operation, target, rule) ==
  [kind |-> "raise", exc |-> "PermissionDeniedError", operation |-> operation,
   target |-> target, rule |-> rule]

\* str(e) of a PermissionError or PermissionDeniedError: the message its
\* __init__ hands to Exception, as the pieces the f-strings join
message(e) ==
  IF e.exc = "PermissionError"
  THEN <<"Permission required for ", e.operation, " on '">> \o e.target \o <<"'">>
       \o (IF e.reason # "" THEN <<": ", e.reason>> ELSE <<>>)
  ELSE <<"Permission denied for ", e.operation, " on '">> \o e.target \o <<"'">>
       \o (IF e.rule # None /\ e.rule[1].description # ""
           THEN <<": ", e.rule[1].description>> ELSE <<>>)

\* What testing one rule against the target gives: "raise" (re.error from
\* compiling its pattern), "match" or "no".
RuleTest(regex, target) ==
  IF ~regex.ok THEN "raise" ELSE IF regex_match(regex, target) THEN "match" ELSE "no"

RECURSIVE FirstMatch(_, _, _)
RECURSIVE FirstMatchAt(_, _, _, _)

\* for rule in op_perms.rules: if _matches_pattern(target, rule.pattern): ...
\* The index of the first rule that matches, 0 when none does, -1 when a
\* pattern reached by the walk does not compile.
FirstMatch(rules, k, target) ==
  IF k > Len(rules) THEN 0
  ELSE FirstMatchAt(rules, k, target, RuleTest(_glob_to_regex(rules[k].pattern), target))

\* Mutant: the walk goes on after a match, so the last matching rule wins.
FirstMatchAt_LastWins(rules, k, target, test) ==
  IF test = "raise" THEN -1
  ELSE IF test = "match" /\ FirstMatch(rules, k + 1, target) = 0 THEN k
  ELSE FirstMatch(rules, k + 1, target)

FirstMatchAt(rules, k, target, test) ==
  IF test = "raise" THEN -1
  ELSE IF test = "match" THEN k
  ELSE FirstMatch(rules, k + 1, target)

\* The outcome of check_sync's walk that stopped at index k.
WalkAction(op_perms, k) ==
  IF k = -1 THEN Raise("re.error")
  ELSE IF k > 0 THEN Return(op_perms.rules[k].action)
  ELSE Return(op_perms.default)

\* The outcome of _find_matching_rule's walk that stopped at index k.
WalkRule(op_perms, k) ==
  IF k = -1 THEN Raise("re.error")
  ELSE IF k > 0 THEN Return(Some(op_perms.rules[k]))
  ELSE Return(None)

check_sync_on(op_perms, target) == WalkAction(op_perms, FirstMatch(op_perms.rules, 1, target))

check_sync(ruleset, operation, target) ==
  check_sync_on(get_operation_permissions(ruleset, operation), target)

find_matching_rule_on(op_perms, target) ==
  WalkRule(op_perms, FirstMatch(op_perms.rules, 1, target))

_find_matching_rule(ruleset, operation, target) ==
  find_matching_rule_on(get_operation_permissions(ruleset, operation), target)

\* return <action returned by check_sync> == action
SyncIs(r, action) == IF r.kind = "raise" THEN r ELSE Return(r.value = action)

\* Mutant: everything that is not denied counts as allowed.
is_allowed_NotDenied(ruleset, operation, target) ==
  SyncIs(SyncIs(check_sync(ruleset, operation, target), "deny"), FALSE)

is_allowed(ruleset, operation, target) ==
  SyncIs(check_sync(ruleset, operation, target), "allow")

is_denied(ruleset, operation, target) ==
  SyncIs(check_sync(ruleset, operation, target), "deny")

requires_approval(ruleset, operation, target) ==
  SyncIs(check_sync(ruleset, operation, target), "ask")

\* Python truth value of what the callback returned
CallbackValues == {"True", "False", "None", "yes"}

Truthy(v) == v \in {"True", "yes"}

Step(pc, result, invoked) == [pc |-> pc, result |-> result, invoked |-> invoked]

NoResult == [kind |-> "none"]

\* Mutant: the matched rule is not passed to the exception.
check_deny_NoRule(operation, target, rule) ==
  IF rule.kind = "raise" THEN Step("done", rule, <<>>)
  ELSE Step("done", PermissionDeniedError(operation, target, None), <<>>)

\* check when check_sync gave deny: rule is what _find_matching_rule gave
check_deny(operation, target, rule) ==
  IF rule.kind = "raise" THEN Step("done", rule, <<>>)
  ELSE Step("done", PermissionDeniedError(operation, target, rule.value), <<>>)

\* Mutant: PermissionError is raised without the reason.
check_ask_ErrorNoReason(ask_callback, ask_fallback, operation, target, reason) ==
  IF ask_callback # None
  THEN Step("awaiting", NoResult, << <<operation, target, reason>> >>)
  ELSE IF ask_fallback = "error"
  THEN Step("done", PermissionError(operation, target, ""), <<>>)
  ELSE Step("done", PermissionDeniedError(operation, target, None), <<>>)

\* Mutant: the callback is called without the reason.
check_ask_CallbackNoReason(ask_callback, ask_fallback, operation, target, reason) ==
  IF ask_callback # None
  THEN Step("awaiting", NoResult, << <<operation, target, "">> >>)
  ELSE IF ask_fallback = "error"
  THEN Step("done", PermissionError(operation, target, reason), <<>>)
  ELSE Step("done", PermissionDeniedError(operation, target, None), <<>>)

\* check when check_sync gave ask
check_ask(ask_callback, ask_fallback, operation, target, reason) ==
  IF ask_callback # None
  THEN Step("awaiting", NoResult, << <<operation, target, reason>> >>)
  ELSE IF ask_fallback = "error"
  THEN Step("done", PermissionError(operation, target, reason), <<>>)
  ELSE Step("done", PermissionDeniedError(operation, target, None), <<>>)

\* Mutant: a deny is handled like an ask.
check_on_DenyAsAsk(ruleset, ask_callback, ask_fallback, operation, target, reason, action) ==
  IF action.kind = "raise" THEN Step("done", action, <<>>)
  ELSE IF action.value = "allow" THEN Step("done", Return(TRUE), <<>>)
  ELSE check_ask(ask_callback, ask_fallback, operation, target, reason)

\* Mutant: the early return for allow is missing.
check_on_AskUnlessDeny(ruleset, ask_callback, ask_fallback, operation, target, reason, action) ==
  IF action.kind = "raise" THEN Step("done", action, <<>>)
  ELSE IF action.value = "deny"
  THEN check_deny(operation, target, _find_matching_rule(ruleset, operation, target))
  ELSE check_ask(ask_callback, ask_fallback, operation, target, reason)

\* check after action = self.check_sync(operation, target)
check_on(ruleset, ask_callback, ask_fallback, operation, target, reason, action) ==
  IF action.kind = "raise" THEN Step("done", action, <<>>)
  ELSE IF action.value = "allow" THEN Step("done", Return(TRUE), <<>>)
  ELSE IF action.value = "deny"
  THEN check_deny(operation, target, _find_matching_rule(ruleset, operation, target))
  ELSE check_ask(ask_callback, ask_fallback, operation, target, reason)

\* check, up to its return, raise or await: the next position of the call,
\* its outcome when it is over, and the callback invocations it made.
check_begin(ruleset, ask_callback, ask_fallback, operation, target, reason) ==
  check_on(ruleset, ask_callback, ask_fallback, operation, target, reason,
           check_sync(ruleset, operation, target))

\* Mutant: a refusal is returned as False instead of raised.
check_resume_ReturnsFalse(operation, target, allowed) == Return(Truthy(allowed))

\* check, after the callback returned allowed
check_resume(operation, target, allowed) ==
  IF Truthy(allowed) THEN Return(TRUE)
  ELSE PermissionDeniedError(operation, target, None)

(***************************************************************************)
(* The checker and one caller.  _ruleset, _ask_callback and _ask_fallback  *)
(* are the checker's fields; pc, call, result, invoked and awaited follow   *)
(* the caller's current call: its position, its arguments, its outcome,    *)
(* the callback invocations made on its behalf and what awaiting the       *)
(* callback gave (None while nothing was awaited to its end).              *)
(*                                                                         *)
(* _enable_execute, fs and io belong to a LocalBackend that owns the       *)
(* checker: its execute switch, the files below its root and the I/O its   *)
(* current call performed.  threads holds the frames of threads that run   *)
(* checker methods statement by statement.  A specification that has no    *)
(* backend or no such threads leaves these variables at their initial      *)
(* values.                                                                 *)
(***************************************************************************)
VARIABLES _ruleset, _ask_callback, _ask_fallback, pc, call, result, invoked,
          awaited, _enable_execute, fs, io, threads

vars ==
  <<_ruleset, _ask_callback, _ask_fallback, pc, call, result, invoked, awaited,
    _enable_execute, fs, io, threads>>

checker == <<_ruleset, _ask_callback, _ask_fallback>>

caller == <<pc, call, result, invoked, awaited>>

backend == <<_enable_execute, fs, io>>

\* No LocalBackend is built.
NoBackend == _enable_execute = FALSE /\ fs = <<>> /\ io = <<>>

\* No thread runs a checker method statement by statement.
NoThreads == threads = <<>>

\* Longest rule list of an operation
MaxRules == 2

RuleDenyA == PermissionRule(<<"*", "*", "/", "a">>, "deny", "protect a")

RuleAskStar == PermissionRule(<<"*">>, "ask", "")

RuleAllowCls == PermissionRule(<<"[", "!", "a", "]">>, "allow", "bang or a")

RulePool == {RuleDenyA, RuleAskStar, RuleAllowCls}

RuleLists == UNION {[1..n -> RulePool] : n \in 0..MaxRules}

\* The operations a ruleset configures; the others are left None.
ConfiguredSets ==
  {{}, {"read", "write", "execute", "glob"}, {"edit", "grep", "ls"}}

Rulesets ==
  {PermissionRuleset(d, [o \in PermissionOperation |->
                           IF o \in S THEN Some(OperationPermissions(od, rules)) ELSE None]) :
     d \in PermissionAction, od \in PermissionAction, rules \in RuleLists,
     S \in ConfiguredSets}

Targets == {<<"a">>, <<"b">>, <<"b", "/", "a">>}

Reasons == {"", "Save changes"}

NoCall == [fn |-> "none", operation |-> "none", target |-> <<>>, reason |-> ""]

Call(fn, operation, target, reason) ==
  [fn |-> fn, operation |-> operation, target |-> target, reason |-> reason]

\* PermissionChecker.__init__(ruleset, ask_callback, ask_fallback)
Init ==
  /\ _ruleset \in Rulesets
  /\ _ask_callback \in {None, Some("ask_user")}
  /\ _ask_fallback \in {"deny", "error"}
  /\ pc = "idle"
  /\ call = NoCall
  /\ result = NoResult
  /\ invoked = <<>>
  /\ awaited = None
  /\ NoBackend
  /\ NoThreads

\* A synchronous method runs to its outcome in one step.
SyncCall(fn, operation, target, outcome) ==
  /\ pc = "idle"
  /\ pc' = "done"
  /\ call' = Call(fn, operation, target, "")
  /\ result' = outcome
  /\ invoked' = <<>>
  /\ awaited' = None
  /\ UNCHANGED <<checker, backend, threads>>

\* ruleset.get_operation_permissions(operation)
CallGetOperationPermissions(operation) ==
  SyncCall("get_operation_permissions", operation, <<>>,
           Return(get_operation_permissions(_ruleset, operation)))

CallCheckSync(operation, target) ==
  SyncCall("check_sync", operation, target, check_sync(_ruleset, operation, target))

CallFindMatchingRule(operation, target) ==
  SyncCall("_find_matching_rule", operation, target,
           _find_matching_rule(_ruleset, operation, target))

CallIsAllowed(operation, target) ==
  SyncCall("is_allowed", operation, target, is_allowed(_ruleset, operation, target))

CallIsDenied(operation, target) ==
  SyncCall("is_denied", operation, target, is_denied(_ruleset, operation, target))

CallRequiresApproval(operation, target) ==
  SyncCall("requires_approval", operation, target,
           requires_approval(_ruleset, operation, target))

\* The caller's call of check reaches step.
CheckCall(operation, target, reason, step) ==
  /\ pc = "idle"
  /\ pc' = step.pc
  /\ call' = Call("check", operation, target, reason)
  /\ result' = step.result
  /\ invoked' = step.invoked
  /\ awaited' = None
  /\ UNCHANGED <<checker, backend, threads>>

\* await checker.check(operation, target, reason), up to the await
CallCheck(operation, target, reason) ==
  CheckCall(operation, target, reason,
            check_begin(_ruleset, _ask_callback, _ask_fallback, operation, target, reason))

\* allowed = await self._ask_callback(...): the callback returns v
CallbackReturns(v) ==
  /\ pc = "awaiting"
  /\ pc' = "done"
  /\ result' = check_resume(call.operation, call.target, v)
  /\ awaited' = Some(Return(v))
  /\ UNCHANGED <<checker, call, invoked, backend, threads>>

\* Mutant: check catches what the callback raises and allows the operation.
CallbackRaises_Allows ==
  /\ pc = "awaiting"
  /\ pc' = "done"
  /\ result' = Return(TRUE)
  /\ awaited' = Some(Raise("CallbackError"))
  /\ UNCHANGED <<checker, call, invoked, backend, threads>>

\* the callback raises: the exception leaves check through the await
CallbackRaises ==
  /\ pc = "awaiting"
  /\ pc' = "done"
  /\ result' = Raise("CallbackError")
  /\ awaited' = Some(Raise("CallbackError"))
  /\ UNCHANGED <<checker, call, invoked, backend, threads>>

\* the task awaiting check is cancelled while the callback is pending
Cancel ==
  /\ pc = "awaiting"
  /\ pc' = "done"
  /\ result' = Raise("CancelledError")
  /\ awaited' = Some(Raise("CancelledError"))
  /\ UNCHANGED <<checker, call, invoked, backend, threads>>

\* The caller takes the outcome and is ready for its next call.
Finish ==
  /\ pc = "done"
  /\ pc' = "idle"
  /\ call' = NoCall
  /\ result' = NoResult
  /\ invoked' = <<>>
  /\ awaited' = None
  /\ UNCHANGED <<checker, backend, threads>>

Next ==
  \/ \E operation \in PermissionOperation : CallGetOperationPermissions(operation)
  \/ \E operation \in PermissionOperation, target \in Targets :
       \/ CallCheckSync(operation, target)
       \/ CallFindMatchingRule(operation, target)
       \/ CallIsAllowed(operation, target)
       \/ CallIsDenied(operation, target)
       \/ CallRequiresApproval(operation, target)
       \/ \E reason \in Reasons : CallCheck(operation, target, reason)
  \/ \E v \in CallbackValues : CallbackReturns(v)
  \/ CallbackRaises
  \/ Cancel
  \/ Finish

Spec == Init /\ [][Next]_vars

(***************************************************************************)
(* Threads (or tasks) sharing one checker.  A thread runs a checker method *)
(* one statement at a time: it loads the operation's permissions, walks    *)
(* the rules one test per step, and returns; check goes on to              *)
(* _find_matching_rule or to the callback.  Between two steps of a thread  *)
(* the other thread may take any number of steps.                          *)
(***************************************************************************)
Threads == {"caller", "other"}

\* The methods a thread calls: the caller repeats check_sync, the other
\* thread calls every method of the checker.
ThreadMethods ==
  ("caller" :> {"check_sync"}) @@
  ("other" :> {"check_sync", "_find_matching_rule", "is_allowed", "is_denied",
               "requires_approval", "check"})

\* A thread's frame: its position, the method and its arguments, the loop it
\* is in (walk), the local op_perms and the index k of the rule to test next,
\* the outcome and the callback invocations made.
Frame(fpc, fn, operation, target, reason, walk, op_perms, k, outcome, calls) ==
  [pc |-> fpc, fn |-> fn, operation |-> operation, target |-> target,
   reason |-> reason, walk |-> walk, op_perms |-> op_perms, k |-> k,
   result |-> outcome, invoked |-> calls]

IdleFrame == Frame("idle", "none", "none", <<>>, "", "none", None, 0, NoResult, <<>>)

\* The frame f at the end of its method, with its outcome.
FrameDone(f, outcome) ==
  [f EXCEPT !.pc = "done", !.result = outcome, !.op_perms = None, !.k = 0]

\* The frame f of check after check_ask or check_deny gave step.
FrameStep(f, step) ==
  [f EXCEPT !.pc = step.pc, !.result = step.result, !.invoked = step.invoked,
            !.op_perms = None, !.k = 0]

\* The loop of f.walk is over with outcome: the method returns it, compares
\* it, or (check) goes on with the statements after the call.
FrameReturned(f, outcome, ask_callback, ask_fallback) ==
  IF outcome.kind = "raise" THEN FrameDone(f, outcome)
  ELSE IF f.fn \in {"check_sync", "_find_matching_rule"} THEN FrameDone(f, outcome)
  ELSE IF f.fn = "is_allowed" THEN FrameDone(f, SyncIs(outcome, "allow"))
  ELSE IF f.fn = "is_denied" THEN FrameDone(f, SyncIs(outcome, "deny"))
  ELSE IF f.fn = "requires_approval" THEN FrameDone(f, SyncIs(outcome, "ask"))
  ELSE IF f.walk = "_find_matching_rule"
  THEN FrameStep(f, check_deny(f.operation, f.target, outcome))
  ELSE IF outcome.value = "allow" THEN FrameDone(f, Return(TRUE))
  ELSE IF outcome.value = "deny"
  THEN [f EXCEPT !.pc = "load", !.walk = "_find_matching_rule", !.op_perms = None, !.k = 0]
  ELSE FrameStep(f, check_ask(ask_callback, ask_fallback, f.operation, f.target, f.reason))

\* What the loop falls through to: op_perms.default, or None
WalkDefault(f) ==
  IF f.walk = "check_sync" THEN Return(f.op_perms[1].default) ELSE Return(None)

\* What the loop returns at a matching rule: rule.action, or the rule
WalkFound(f) ==
  IF f.walk = "check_sync" THEN Return(f.op_perms[1].rules[f.k].action)
  ELSE Return(Some(f.op_perms[1].rules[f.k]))

\* One iteration of "for rule in op_perms.rules"; test is what testing rule
\* k gave.
FrameTested(f, test, ask_callback, ask_fallback) ==
  IF test = "raise" THEN FrameDone(f, Raise("re.error"))
  ELSE IF test = "match" THEN FrameReturned(f, WalkFound(f), ask_callback, ask_fallback)
  ELSE [f EXCEPT !.k = f.k + 1]

\* The thread's next statement of the loop.
FrameWalked(f, ask_callback, ask_fallback) ==
  IF f.k > Len(f.op_perms[1].rules)
  THEN FrameReturned(f, WalkDefault(f), ask_callback, ask_fallback)
  ELSE FrameTested(f, RuleTest(_glob_to_regex(f.op_perms[1].rules[f.k].pattern), f.target),
                   ask_callback, ask_fallback)

\* Thread t calls a method of the shared checker.
ThreadCall(t, fn, operation, target, reason) ==
  /\ threads[t].pc = "idle"
  /\ fn \in ThreadMethods[t]
  /\ fn # "check" => reason = ""
  /\ threads' = [threads EXCEPT ![t] =
       Frame("load", fn, operation, target, reason,
             IF fn = "_find_matching_rule" THEN fn ELSE "check_sync",
             None, 0, NoResult, <<>>)]
  /\ UNCHANGED <<checker, caller, backend>>

\* op_perms = self._ruleset.get_operation_permissions(operation)
ThreadLoad(t) ==
  /\ threads[t].pc = "load"
  /\ threads' = [threads EXCEPT ![t] =
       [@ EXCEPT !.pc = "walk", !.k = 1,
                 !.op_perms =
                   Some(get_operation_permissions(_ruleset, threads[t].operation))]]
  /\ UNCHANGED <<checker, caller, backend>>

\* for rule in op_perms.rules: if _matches_pattern(...): return ...
ThreadWalk(t) ==
  /\ threads[t].pc = "walk"
  /\ threads' = [threads EXCEPT ![t] = FrameWalked(@, _ask_callback, _ask_fallback)]
  /\ UNCHANGED <<checker, caller, backend>>

\* Mutant: an approval is remembered as an allow rule put first in the
\* operation's rule list.
ThreadCallbackReturns_RemembersApproval(t, v) ==
  /\ threads[t].pc = "awaiting"
  /\ threads' = [threads EXCEPT ![t] =
       FrameDone(@, check_resume(@.operation, @.target, v))]
  /\ _ruleset' =
       IF Truthy(v)
       THEN [_ruleset EXCEPT ![threads[t].operation] =
              Some(OperationPermissions(
                     get_operation_permissions(_ruleset, threads[t].operation).default,
                     <<PermissionRule(threads[t].target, "allow", "approved")>> \o
                       get_operation_permissions(_ruleset, threads[t].operation).rules))]
       ELSE _ruleset
  /\ UNCHANGED <<_ask_callback, _ask_fallback, caller, backend>>

\* allowed = await self._ask_callback(...) in thread t: the callback returns v
ThreadCallbackReturns(t, v) ==
  /\ threads[t].pc = "awaiting"
  /\ threads' = [threads EXCEPT ![t] =
       FrameDone(@, check_resume(@.operation, @.target, v))]
  /\ UNCHANGED <<checker, caller, backend>>

\* the callback raises, or the task is cancelled while it is pending
ThreadCallbackFails(t, exc) ==
  /\ threads[t].pc = "awaiting"
  /\ threads' = [threads EXCEPT ![t] = FrameDone(@, Raise(exc))]
  /\ UNCHANGED <<checker, caller, backend>>

\* Thread t takes the outcome and is ready for its next call.
ThreadFinish(t) ==
  /\ threads[t].pc = "done"
  /\ threads' = [threads EXCEPT ![t] = IdleFrame]
  /\ UNCHANGED <<checker, caller, backend>>

\* The rulesets the threads share: "read" is configured, the rest is not.
SharedRulesets ==
  {PermissionRuleset(d, [o \in PermissionOperation |->
                           IF o = "read" THEN Some(OperationPermissions("allow", rules))
                           ELSE None]) :
     d \in {"deny", "ask"}, rules \in RuleLists}

SharedOperations == {"read", "ls"}

SharedTargets == {<<"a">>, <<"b", "/", "a">>}

SharedInit ==
  /\ _ruleset \in SharedRulesets
  /\ _ask_callback \in {None, Some("ask_user")}
  /\ _ask_fallback \in {"deny", "error"}
  /\ pc = "idle"
  /\ call = NoCall
  /\ result = NoResult
  /\ invoked = <<>>
  /\ awaited = None
  /\ NoBackend
  /\ threads = [t \in Threads |-> IdleFrame]

SharedNext ==
  \E t \in Threads :
    \/ \E fn \in ThreadMethods[t], operation \in SharedOperations,
          target \in SharedTargets, reason \in Reasons :
         ThreadCall(t, fn, operation, target, reason)
    \/ ThreadLoad(t)
    \/ ThreadWalk(t)
    \/ \E v \in CallbackValues : ThreadCallbackReturns(t, v)
    \/ \E exc \in {"CallbackError", "CancelledError"} : ThreadCallbackFails(t, exc)
    \/ ThreadFinish(t)

SharedSpec == SharedInit /\ [][SharedNext]_vars

(***************************************************************************)
(* permissions/presets.py: the pattern lists and the four preset rulesets. *)
(***************************************************************************)
\* "**/.env", "**/.env.*", "**/*.pem", "**/*.key", "**/*.crt",
\* "**/credentials*", "**/secrets*", "**/*secret*", "**/*password*",
\* "**/.aws/**", "**/.ssh/**", "**/.gnupg/**"
SECRETS_PATTERNS ==
  <<<<"*", "*", "/", ".", "e", "n", "v">>,
    <<"*", "*", "/", ".", "e", "n", "v", ".", "*">>,
    <<"*", "*", "/", "*", ".", "p", "e", "m">>,
    <<"*", "*", "/", "*", ".", "k", "e", "y">>,
    <<"*", "*", "/", "*", ".", "c", "r", "t">>,
    <<"*", "*", "/", "c", "r", "e", "d", "e", "n", "t", "i", "a", "l", "s", "*">>,
    <<"*", "*", "/", "s", "e", "c", "r", "e", "t", "s", "*">>,
    <<"*", "*", "/", "*", "s", "e", "c", "r", "e", "t", "*">>,
    <<"*", "*", "/", "*", "p", "a", "s", "s", "w", "o", "r", "d", "*">>,
    <<"*", "*", "/", ".", "a", "w", "s", "/", "*", "*">>,
    <<"*", "*", "/", ".", "s", "s", "h", "/", "*", "*">>,
    <<"*", "*", "/", ".", "g", "n", "u", "p", "g", "/", "*", "*">>>>

\* "/etc/**", "/var/**", "/usr/**", "/bin/**", "/sbin/**", "/boot/**",
\* "/sys/**", "/proc/**"
SYSTEM_PATTERNS ==
  <<<<"/", "e", "t", "c", "/", "*", "*">>,
    <<"/", "v", "a", "r", "/", "*", "*">>,
    <<"/", "u", "s", "r", "/", "*", "*">>,
    <<"/", "b", "i", "n", "/", "*", "*">>,
    <<"/", "s", "b", "i", "n", "/", "*", "*">>,
    <<"/", "b", "o", "o", "t", "/", "*", "*">>,
    <<"/", "s", "y", "s", "/", "*", "*">>,
    <<"/", "p", "r", "o", "c", "/", "*", "*">>>>

\* "rm -rf /*", "rm -rf /", ":(){:|:&};:", "dd if=*of=/dev/*", "mkfs*",
\* "> /dev/sda", "chmod -R 777 /"
DANGEROUS_COMMANDS ==
  <<<<"r", "m", " ", "-", "r", "f", " ", "/", "*">>,
    <<"r", "m", " ", "-", "r", "f", " ", "/">>,
    <<":", "(", ")", "{", ":", "|", ":", "&", "}", ";", ":">>,
    <<"d", "d", " ", "i", "f", "=", "*", "o", "f", "=", "/", "d", "e", "v", "/", "*">>,
    <<"m", "k", "f", "s", "*">>,
    <<">", " ", "/", "d", "e", "v", "/", "s", "d", "a">>,
    <<"c", "h", "m", "o", "d", " ", "-", "R", " ", "7", "7", "7", " ", "/">>>>

\* Mutant: the rules are made with action "ask".
_create_deny_rules_Ask(patterns, description) ==
  [k \in 1..Len(patterns) |-> PermissionRule(patterns[k], "ask", description)]

_create_deny_rules(patterns, description) ==
  [k \in 1..Len(patterns) |-> PermissionRule(patterns[k], "deny", description)]

\* OperationPermissions(default=default), rules left to the field's default
DefaultOnly(default) == Some(OperationPermissions(default, <<>>))

\* OperationPermissions(default=default, rules=_create_deny_rules(...))
DenyRules(default, patterns, description) ==
  Some(OperationPermissions(default, _create_deny_rules(patterns, description)))

DEFAULT_RULESET ==
  PermissionRuleset("ask",
    ("read" :> DenyRules("allow", SECRETS_PATTERNS, "Protect sensitive files")) @@
    ("write" :> DenyRules("ask", SECRETS_PATTERNS, "Protect sensitive files")) @@
    ("edit" :> DenyRules("ask", SECRETS_PATTERNS, "Protect sensitive files")) @@
    ("execute" :> DenyRules("ask", DANGEROUS_COMMANDS, "Block dangerous commands")) @@
    ("glob" :> DefaultOnly("allow")) @@
    ("grep" :> DefaultOnly("allow")) @@
    ("ls" :> DefaultOnly("allow")))

PERMISSIVE_RULESET ==
  PermissionRuleset("allow",
    ("read" :> DenyRules("allow", SECRETS_PATTERNS, "Protect sensitive files")) @@
    ("write" :> DenyRules("allow", SECRETS_PATTERNS \o SYSTEM_PATTERNS,
                          "Protect sensitive and system files")) @@
    ("edit" :> DenyRules("allow", SECRETS_PATTERNS \o SYSTEM_PATTERNS,
                         "Protect sensitive and system files")) @@
    ("execute" :> DenyRules("allow", DANGEROUS_COMMANDS, "Block dangerous commands")) @@
    ("glob" :> DefaultOnly("allow")) @@
    ("grep" :> DefaultOnly("allow")) @@
    ("ls" :> DefaultOnly("allow")))

\* Mutant: the read-only preset is the default preset, which asks for
\* writes, edits and commands.
READONLY_RULESET_AsDefault == DEFAULT_RULESET

READONLY_RULESET ==
  PermissionRuleset("deny",
    ("read" :> DenyRules("allow", SECRETS_PATTERNS, "Protect sensitive files")) @@
    ("write" :> DefaultOnly("deny")) @@
    ("edit" :> DefaultOnly("deny")) @@
    ("execute" :> DefaultOnly("deny")) @@
    ("glob" :> DefaultOnly("allow")) @@
    ("grep" :> DefaultOnly("allow")) @@
    ("ls" :> DefaultOnly("allow")))

\* Mutant: the strict preset is the default preset, which allows reads,
\* glob, grep and ls.
STRICT_RULESET_AsDefault == DEFAULT_RULESET

STRICT_RULESET ==
  PermissionRuleset("ask",
    ("read" :> DenyRules("ask", SECRETS_PATTERNS, "Protect sensitive files")) @@
    ("write" :> DenyRules("ask", SECRETS_PATTERNS, "Protect sensitive files")) @@
    ("edit" :> DenyRules("ask", SECRETS_PATTERNS, "Protect sensitive files")) @@
    ("execute" :> DenyRules("ask", DANGEROUS_COMMANDS, "Block dangerous commands")) @@
    ("glob" :> DefaultOnly("ask")) @@
    ("grep" :> DefaultOnly("ask")) @@
    ("ls" :> DefaultOnly("ask")))

PresetRulesets ==
  {DEFAULT_RULESET, PERMISSIVE_RULESET, READONLY_RULESET, STRICT_RULESET}

(***************************************************************************)
(* A checker built on one of the presets and a caller of check_sync.  The  *)
(* targets are a directory prefix followed by a name, with or without a    *)
(* newline at the end, and some commands.                                  *)
(***************************************************************************)
PresetDirs ==
  <<<<>>,
    <<"/", "x", "/">>,
    <<"/", "e", "t", "c", "/">>,
    <<"a", "/", "b", "/">>,
    <<"/", "x", "\n", "/">>>>

PresetNames ==
  <<<<".", "e", "n", "v">>,
    <<".", "e", "n", "v", ".", "l", "o", "c", "a", "l">>,
    <<"a", ".", "p", "e", "m">>,
    <<"i", "d", ".", "k", "e", "y">>,
    <<"c", ".", "c", "r", "t">>,
    <<"c", "r", "e", "d", "e", "n", "t", "i", "a", "l", "s", ".", "j", "s", "o", "n">>,
    <<"s", "e", "c", "r", "e", "t", "s", ".", "y", "a", "m", "l">>,
    <<"m", "y", "s", "e", "c", "r", "e", "t", ".", "t", "x", "t">>,
    <<"p", "a", "s", "s", "w", "o", "r", "d", "s">>,
    <<".", "a", "w", "s", "/", "c", "o", "n", "f", "i", "g">>,
    <<".", "s", "s", "h", "/", "i", "d">>,
    <<".", "g", "n", "u", "p", "g", "/", "k">>,
    <<"a", ".", "p", "y">>,
    <<"e", "n", "v">>,
    <<"x", ".", "e", "n", "v">>,
    <<".", "e", "n", "v", "x">>,
    <<"a", ".", "p", "e", "m", ".", "b", "a", "k">>,
    <<"k", "e", "y">>>>

PresetCommands ==
  <<<<"l", "s">>,
    <<"r", "m", " ", "-", "r", "f", " ", "/">>,
    <<"r", "m", " ", "-", "r", "f", " ", "/", "x">>,
    <<"m", "k", "f", "s", ".", "e", "x", "t", "4", " ", "/", "d", "e", "v", "/", "s", "d", "a">>,
    <<"c", "a", "t", " ", ".", "e", "n", "v">>,
    <<"r", "m", " ", "-", "r", "f", " ", "/", "*">>,
    <<":", "(", ")", "{", ":", "|", ":", "&", "}", ";", ":">>,
    <<"c", "h", "m", "o", "d", " ", "-", "R", " ", "7", "7", "7", " ", "/">>,
    <<"m", "k", "f", "s">>,
    <<"d", "d", " ", "i", "f", "=", "a", " ", "o", "f", "=", "/", "d", "e", "v", "/",
      "s", "d", "a">>,
    <<"d", "d", " ", "i", "f", "=", "/", "d", "e", "v", "/", "z", "e", "r", "o", " ",
      "o", "f", "=", "/", "d", "e", "v", "/", "s", "d", "a">>,
    <<">", " ", "/", "d", "e", "v", "/", "s", "d", "a">>>>

PresetTargets ==
  {PresetDirs[d] \o PresetNames[n] \o tail :
     d \in 1..Len(PresetDirs), n \in 1..Len(PresetNames), tail \in {<<>>, <<"\n">>}}
  \cup {PresetCommands[c] : c \in 1..Len(PresetCommands)}

\* PermissionChecker(ruleset=<a preset>): callback and fallback take their
\* defaults.
PresetInit ==
  /\ _ruleset \in PresetRulesets
  /\ _ask_callback = None
  /\ _ask_fallback = "error"
  /\ pc = "idle"
  /\ call = NoCall
  /\ result = NoResult
  /\ invoked = <<>>
  /\ awaited = None
  /\ NoBackend
  /\ NoThreads

PresetNext ==
  \/ \E operation \in PermissionOperation, target \in PresetTargets :
       CallCheckSync(operation, target)
  \/ Finish

PresetSpec == PresetInit /\ [][PresetNext]_vars

(***************************************************************************)
(* backends/local.py: LocalBackend.  A path is held the way pathlib holds  *)
(* it, as the sequence of its segments below "/"; str gives its text.  A   *)
(* message is the sequence of the pieces its f-string joins: the literal   *)
(* text, the operation name and a rule's description are one piece each,   *)
(* a path or a command is one piece per character.  The backend is built   *)
(* as LocalBackend(root_dir="/w", enable_execute=..., permissions=...,     *)
(* ask_callback=..., ask_fallback=...); no symbolic link lies below "/".   *)
(***************************************************************************)
RECURSIVE parts(_, _)
\* The segments of Path(path): the runs between "/"s; pathlib drops the empty
\* ones and the "." ones.
parts(path, seg) ==
  IF path = <<>> \/ Head(path) = "/"
  THEN (IF seg \in {<<>>, <<".">>} THEN <<>> ELSE <<seg>>)
       \o (IF path = <<>> THEN <<>> ELSE parts(Tail(path), <<>>))
  ELSE parts(Tail(path), Append(seg, Head(path)))

RECURSIVE resolve(_, _)
\* Path.resolve() of an absolute path: ".." steps up, and stays at "/".
resolve(segs, done) ==
  IF segs = <<>> THEN done
  ELSE IF Head(segs) = <<".", ".">>
  THEN resolve(Tail(segs), SubSeq(done, 1, Len(done) - 1))
  ELSE resolve(Tail(segs), Append(done, Head(segs)))

RECURSIVE join(_, _)
\* sep.join(items)
join(sep, items) ==
  IF items = <<>> THEN <<>>
  ELSE IF Len(items) = 1 THEN items[1]
  ELSE items[1] \o sep \o join(sep, Tail(items))

\* str(path) of an absolute path
str(segs) == <<"/">> \o join(<<"/">>, segs)

\* self._root = Path(root_dir).resolve()
_root == << <<"w">> >>

\* if self._allowed_directories is None: self._allowed_directories = [self._root]
_allowed_directories == <<_root>>

\* resolved.relative_to(allowed) does not raise ValueError
relative_to(resolved, allowed) ==
  Len(allowed) <= Len(resolved) /\ SubSeq(resolved, 1, Len(allowed)) = allowed

\* Mutant: the path is resolved and not checked against the allowed
\* directories.
_validate_path_Unchecked(path) ==
  Return(IF path # <<>> /\ path[1] = "/"
         THEN resolve(parts(path, <<>>), <<>>)
         ELSE resolve(_root \o parts(path, <<>>), <<>>))

\* self._validate_path(path): the resolved path, or the builtin
\* PermissionError(message) when it lies in no allowed directory
_validate_path(path) ==
  LET resolved == IF path # <<>> /\ path[1] = "/"
                  THEN resolve(parts(path, <<>>), <<>>)
                  ELSE resolve(_root \o parts(path, <<>>), <<>>)
  IN  IF \E k \in 1..Len(_allowed_directories) :
           relative_to(resolved, _allowed_directories[k])
      THEN Return(resolved)
      ELSE [kind |-> "raise", exc |-> "builtins.PermissionError",
            message |-> <<"Access denied: '">> \o path
                        \o <<"' is outside allowed directories (">>
                        \o join(<<", ">>, [k \in 1..Len(_allowed_directories) |->
                                             str(_allowed_directories[k])])
                        \o <<")">>]

\* What a call did besides computing: the checker methods it called and the
\* file system and process calls it made, in order.
Event(kind, operation, target) ==
  [kind |-> kind, operation |-> operation, target |-> target]

\* The outcome of a step of a backend method and the events it added
Did(outcome, events) == [outcome |-> outcome, io |-> events]

\* Mutant: a deny is let through like an allow.
denied_LetThrough(operation, target, rule) ==
  Did(Return(None), <<Event("check_sync", operation, target)>>)

\* _check_permission_sync when check_sync gave deny: rule is what
\* _find_matching_rule gave
denied(operation, target, rule) ==
  Did(IF rule.kind = "raise" THEN rule
      ELSE IF rule.value # None /\ rule.value[1].description # ""
      THEN Return(Some(<<"Permission denied: ", rule.value[1].description>>))
      ELSE Return(Some(<<"Permission denied for ", operation, " on '">> \o target
                       \o <<"'">>)),
      <<Event("check_sync", operation, target),
        Event("_find_matching_rule", operation, target)>>)

\* Mutant: an ask in the synchronous path is put to the callback, and the
\* operation goes on.
asked_CallsBack(ask_fallback, operation, target) ==
  Did(Return(None),
      <<Event("check_sync", operation, target), Event("_ask_callback", operation, target)>>)

\* _check_permission_sync when check_sync gave ask
asked(ask_fallback, operation, target) ==
  Did(IF ask_fallback = "deny"
      THEN Return(Some(<<"Permission denied for ", operation, " on '">> \o target
                       \o <<"' (approval required)">>))
      ELSE PermissionError(operation, target, "Approval required but no callback"),
      <<Event("check_sync", operation, target)>>)

\* _check_permission_sync after action = self._permission_checker.check_sync(...)
permission_on(ruleset, ask_fallback, operation, target, action) ==
  IF action.kind = "raise" THEN Did(action, <<Event("check_sync", operation, target)>>)
  ELSE IF action.value = "allow"
  THEN Did(Return(None), <<Event("check_sync", operation, target)>>)
  ELSE IF action.value = "deny"
  THEN denied(operation, target, _find_matching_rule(ruleset, operation, target))
  ELSE asked(ask_fallback, operation, target)

\* self._check_permission_sync(operation, target): None if allowed, or an
\* error message; ruleset is None when the backend was built without
\* permissions and so has no checker.
_check_permission_sync(ruleset, ask_fallback, operation, target) ==
  IF ruleset = None THEN Did(Return(None), <<>>)
  ELSE permission_on(ruleset, ask_fallback, operation, target,
                     check_sync(ruleset, operation, target))

\* if perm_error:
Refused(perm) == perm.outcome.value # None /\ perm.outcome.value[1] # <<>>

(***************************************************************************)
(* The files below the root: fs maps the path of every regular file to its *)
(* content.  The directories are "/" and the root (the constructor made    *)
(* it): no path of the model lies deeper, so a path is a directory exactly *)
(* when the root is relative to it.                                        *)
(***************************************************************************)
\* What a backend method gave: its outcome, the files it left and its events
Done(outcome, files, events) == [outcome |-> outcome, fs |-> files, io |-> events]

\* WriteResult(path=..., error=...); a field that is not passed is None
WriteResult(path, error) == [type |-> "WriteResult", path |-> path, error |-> error]

\* EditResult(path=..., error=..., occurrences=...)
EditResult(path, error, occurrences) ==
  [type |-> "EditResult", path |-> path, error |-> error, occurrences |-> occurrences]

\* ExecuteResponse(output=..., exit_code=..., truncated=...)
ExecuteResponse(output, exit_code, truncated) ==
  [type |-> "ExecuteResponse", output |-> output, exit_code |-> exit_code,
   truncated |-> truncated]

\* FileInfo(name=..., path=..., is_dir=False, size=...) of a regular file
FileInfo(files, full_path) ==
  [name |-> full_path[Len(full_path)], path |-> str(full_path), is_dir |-> FALSE,
   size |-> Len(files[full_path])]

RECURSIVE readlines(_, _)
\* f.readlines(), and the lines "for line in f" gives: the lines of the
\* content, each with its "\n"
readlines(content, line) ==
  IF content = <<>> THEN (IF line = <<>> THEN <<>> ELSE <<line>>)
  ELSE IF Head(content) = "\n"
  THEN <<Append(line, "\n")>> \o readlines(Tail(content), <<>>)
  ELSE readlines(Tail(content), Append(line, Head(content)))

RECURSIVE rstrip(_)
\* line.rstrip("\n\r")
rstrip(line) ==
  IF line # <<>> /\ line[Len(line)] \in {"\n", "\r"}
  THEN rstrip(SubSeq(line, 1, Len(line) - 1))
  ELSE line

RECURSIVE Decimal(_)
\* f"{n}" of a natural number
Decimal(n) ==
  IF n < 10 THEN <<Digits[n + 1]>> ELSE Decimal(n \div 10) \o <<Digits[(n % 10) + 1]>>

\* LocalBackend.read(path, offset, limit)
read(files, ruleset, ask_fallback, path, offset, limit) ==
  LET full_path == _validate_path(path)
      target == str(full_path.value)
      perm == _check_permission_sync(ruleset, ask_fallback, "read", target)
      lines == readlines(files[full_path.value], <<>>)
      total_lines == Len(lines)
      end == IF offset + limit <= total_lines THEN offset + limit ELSE total_lines
      \* f"{line_num:>6}\t{line}"
      numbered(line_num) ==
        [k \in 1..(6 - Len(Decimal(line_num))) |-> " "] \o Decimal(line_num) \o <<"\t">>
        \o rstrip(lines[line_num])
  IN  IF full_path.kind = "raise"
      THEN Done(Return(<<"Error: ">> \o full_path.message), files, <<>>)
      ELSE IF perm.outcome.kind = "raise" THEN Done(perm.outcome, files, perm.io)
      ELSE IF Refused(perm)
      THEN Done(Return(<<"Error: ">> \o perm.outcome.value[1]), files, perm.io)
      ELSE IF full_path.value \notin DOMAIN files /\ ~relative_to(_root, full_path.value)
      THEN Done(Return(<<"Error: File '">> \o path \o <<"' not found">>), files,
                perm.io \o <<Event("exists", "read", target)>>)
      ELSE IF relative_to(_root, full_path.value)
      THEN Done(Return(<<"Error: '">> \o path \o <<"' is a directory">>), files,
                perm.io \o <<Event("exists", "read", target), Event("is_dir", "read", target)>>)
      ELSE Done(Return(IF offset >= total_lines
                       THEN <<"Error: Offset ">> \o Decimal(offset)
                            \o <<" exceeds file length (">> \o Decimal(total_lines)
                            \o <<" lines)">>
                       ELSE join(<<"\n">>, [k \in 1..(end - offset) |-> numbered(offset + k)])
                            \o (IF end < total_lines
                                THEN <<"\n", "\n", "... (">> \o Decimal(total_lines - end)
                                     \o <<" more lines)">>
                                ELSE <<>>)),
                files,
                perm.io \o <<Event("exists", "read", target), Event("is_dir", "read", target),
                             Event("open", "read", target)>>)

\* LocalBackend.write(path, content); writing where a directory is raises
\* IsADirectoryError, an OSError
write(files, ruleset, ask_fallback, path, content) ==
  LET full_path == _validate_path(path)
      target == str(full_path.value)
      perm == _check_permission_sync(ruleset, ask_fallback, "write", target)
      parent == str(SubSeq(full_path.value, 1, Len(full_path.value) - 1))
  IN  IF full_path.kind = "raise"
      THEN Done(Return(WriteResult(None, Some(full_path.message))), files, <<>>)
      ELSE IF perm.outcome.kind = "raise" THEN Done(perm.outcome, files, perm.io)
      ELSE IF Refused(perm)
      THEN Done(Return(WriteResult(None, perm.outcome.value)), files, perm.io)
      ELSE IF relative_to(_root, full_path.value)
      THEN Done(Return(WriteResult(None, Some(<<"[Errno 21] Is a directory: '">> \o target
                                               \o <<"'">>))),
                files,
                perm.io \o <<Event("mkdir", "write", parent),
                             Event("write_text", "write", target)>>)
      ELSE Done(Return(WriteResult(Some(target), None)),
                (full_path.value :> content) @@ files,
                perm.io \o <<Event("mkdir", "write", parent),
                             Event("write_text", "write", target)>>)

RECURSIVE count(_, _)
\* content.count(old_string), old_string not empty
count(content, old_string) ==
  IF Len(content) < Len(old_string) THEN 0
  ELSE IF SubSeq(content, 1, Len(old_string)) = old_string
  THEN 1 + count(SubSeq(content, Len(old_string) + 1, Len(content)), old_string)
  ELSE count(Tail(content), old_string)

RECURSIVE replace(_, _, _, _)
\* content.replace(old_string, new_string, times), old_string not empty
replace(content, old_string, new_string, times) ==
  IF times = 0 \/ Len(content) < Len(old_string) THEN content
  ELSE IF SubSeq(content, 1, Len(old_string)) = old_string
  THEN new_string \o replace(SubSeq(content, Len(old_string) + 1, Len(content)),
                             old_string, new_string, times - 1)
  ELSE <<Head(content)>> \o replace(Tail(content), old_string, new_string, times)

\* LocalBackend.edit(path, old_string, new_string, replace_all); reading a
\* directory raises IsADirectoryError, an OSError
edit(files, ruleset, ask_fallback, path, old_string, new_string, replace_all) ==
  LET full_path == _validate_path(path)
      target == str(full_path.value)
      perm == _check_permission_sync(ruleset, ask_fallback, "edit", target)
      content == files[full_path.value]
      occurrences == count(content, old_string)
  IN  IF full_path.kind = "raise"
      THEN Done(Return(EditResult(None, Some(full_path.message), None)), files, <<>>)
      ELSE IF perm.outcome.kind = "raise" THEN Done(perm.outcome, files, perm.io)
      ELSE IF Refused(perm)
      THEN Done(Return(EditResult(None, perm.outcome.value, None)), files, perm.io)
      ELSE IF relative_to(_root, full_path.value)
      THEN Done(Return(EditResult(None, Some(<<"[Errno 21] Is a directory: '">> \o target
                                              \o <<"'">>), None)),
                files,
                perm.io \o <<Event("exists", "edit", target),
                             Event("read_text", "edit", target)>>)
      ELSE IF full_path.value \notin DOMAIN files
      THEN Done(Return(EditResult(None, Some(<<"File '">> \o path \o <<"' not found">>),
                                  None)),
                files, perm.io \o <<Event("exists", "edit", target)>>)
      ELSE IF occurrences = 0
      THEN Done(Return(EditResult(None, Some(<<"String '">> \o old_string
                                               \o <<"' not found in file">>), None)),
                files,
                perm.io \o <<Event("exists", "edit", target),
                             Event("read_text", "edit", target)>>)
      ELSE IF occurrences > 1 /\ ~replace_all
      THEN Done(Return(EditResult(None,
                                  Some(<<"String '">> \o old_string \o <<"' found ">>
                                       \o Decimal(occurrences)
                                       \o <<" times. ",
                                            "Use replace_all=True to replace all, or provide more context.">>),
                                  None)),
                files,
                perm.io \o <<Event("exists", "edit", target),
                             Event("read_text", "edit", target)>>)
      ELSE Done(Return(EditResult(Some(target), None,
                                  Some(IF replace_all THEN occurrences ELSE 1))),
                (full_path.value :> replace(content, old_string, new_string,
                                            IF replace_all THEN occurrences ELSE 1))
                @@ files,
                perm.io \o <<Event("exists", "edit", target),
                             Event("read_text", "edit", target),
                             Event("write_text", "edit", target)>>)

\* subprocess.run(["sh", "-c", command], cwd=self._root, timeout=seconds) for
\* the commands of the model ("rm a", "sleep 9", and "rm -rf /", which rm
\* refuses): what the shell left, printed and returned, or that it was still
\* running after the timeout.
sh(files, command, seconds) ==
  IF command = <<"r", "m", " ", "a">>
  THEN IF _root \o << <<"a">> >> \in DOMAIN files
       THEN [timed_out |-> FALSE, returncode |-> 0, output |-> <<>>,
             fs |-> [p \in DOMAIN files \ {_root \o << <<"a">> >>} |-> files[p]]]
       ELSE [timed_out |-> FALSE, returncode |-> 1, fs |-> files,
             output |-> <<"rm: cannot remove 'a': No such file or directory", "\n">>]
  ELSE IF command = <<"s", "l", "e", "e", "p", " ", "9">>
  THEN [timed_out |-> seconds < 9, returncode |-> 0, output |-> <<>>, fs |-> files]
  ELSE [timed_out |-> FALSE, returncode |-> 1, fs |-> files,
        output |-> <<"rm: it is dangerous to operate recursively on '/'", "\n">>]

\* LocalBackend.execute(command, timeout); no output of the model's commands
\* is longer than max_output, so truncated is False
execute(files, ruleset, ask_fallback, enable_execute, command, timeout) ==
  LET perm == _check_permission_sync(ruleset, ask_fallback, "execute", command)
      run == sh(files, command, IF timeout = None \/ timeout[1] = 0 THEN 120 ELSE timeout[1])
  IN  IF ~enable_execute THEN Done(Raise("RuntimeError"), files, <<>>)
      ELSE IF perm.outcome.kind = "raise" THEN Done(perm.outcome, files, perm.io)
      ELSE IF Refused(perm)
      THEN Done(Return(ExecuteResponse(<<"Error: ">> \o perm.outcome.value[1], 1, FALSE)),
                files, perm.io)
      ELSE IF run.timed_out
      THEN Done(Return(ExecuteResponse(<<"Error: Command timed out">>, 124, FALSE)),
                run.fs, perm.io \o <<Event("subprocess.run", "execute", command)>>)
      ELSE Done(Return(ExecuteResponse(run.output, run.returncode, FALSE)),
                run.fs, perm.io \o <<Event("subprocess.run", "execute", command)>>)

RECURSIVE sorted(_)
\* sorted(results, key=...): the regular files of one directory by name, which
\* is also their order by path
sorted(paths) ==
  LET RECURSIVE Before(_, _)
      \* a < b for two strings
      Before(a, b) ==
        IF b = <<>> THEN FALSE
        ELSE IF a = <<>> THEN TRUE
        ELSE IF Head(a) # Head(b) THEN Ord[Head(a)] < Ord[Head(b)]
        ELSE Before(Tail(a), Tail(b))
      first == CHOOSE p \in paths : \A q \in paths \ {p} : Before(p[Len(p)], q[Len(q)])
  IN  IF paths = {} THEN <<>> ELSE <<first>> \o sorted(paths \ {first})

\* full_path.iterdir(): the regular files of the directory, those left out
\* that self._validate_path(str(entry)) refuses
iterdir(files, full_path) ==
  {p \in DOMAIN files : /\ Len(p) = Len(full_path) + 1
                        /\ relative_to(p, full_path)
                        /\ _validate_path(str(p)).kind = "return"}

\* LocalBackend.ls_info(path)
ls_info(files, path) ==
  LET full_path == _validate_path(path)
      target == str(full_path.value)
      entries == sorted(iterdir(files, full_path.value))
  IN  IF full_path.kind = "raise" THEN Done(Return(<<>>), files, <<>>)
      ELSE IF full_path.value \in DOMAIN files
      THEN Done(Return(<<FileInfo(files, full_path.value)>>), files,
                <<Event("exists", "ls_info", target), Event("is_file", "ls_info", target)>>)
      ELSE IF ~relative_to(_root, full_path.value)
      THEN Done(Return(<<>>), files, <<Event("exists", "ls_info", target)>>)
      ELSE Done(Return([k \in 1..Len(entries) |-> FileInfo(files, entries[k])]), files,
                <<Event("exists", "ls_info", target), Event("is_file", "ls_info", target),
                  Event("iterdir", "ls_info", target)>>)

\* LocalBackend.glob_info(pattern, path)
glob_info(files, pattern, path) ==
  LET base_path == _validate_path(path)
      target == str(base_path.value)
      RECURSIVE fnmatch(_, _)
      \* base_path.glob(pattern) matches a pattern of one segment against a
      \* name: "*" is any run of characters, "?" any one character (the
      \* patterns of the model hold no "/", no "**" and no bracket)
      fnmatch(name, pat) ==
        IF pat = <<>> THEN name = <<>>
        ELSE IF Head(pat) = "*"
        THEN fnmatch(name, Tail(pat)) \/ (name # <<>> /\ fnmatch(Tail(name), pat))
        ELSE /\ name # <<>>
             /\ Head(pat) \in {"?", Head(name)}
             /\ fnmatch(Tail(name), Tail(pat))
      matches == sorted({p \in iterdir(files, base_path.value) :
                           fnmatch(p[Len(p)], pattern)})
  IN  IF base_path.kind = "raise" THEN Done(Return(<<>>), files, <<>>)
      ELSE IF base_path.value \notin DOMAIN files /\ ~relative_to(_root, base_path.value)
      THEN Done(Return(<<>>), files, <<Event("exists", "glob_info", target)>>)
      ELSE Done(Return([k \in 1..Len(matches) |-> FileInfo(files, matches[k])]), files,
                <<Event("exists", "glob_info", target), Event("glob", "glob_info", target)>>)

RECURSIVE grep_files(_, _, _)
\* The GrepMatch(path=..., line_number=..., line=...) of every line that
\* holds the pattern, a literal text, in each of the files
grep_files(files, paths, pattern) ==
  LET lines == readlines(files[Head(paths)], <<>>)
      RECURSIVE grep_lines(_)
      grep_lines(k) ==
        IF k > Len(lines) THEN <<>>
        ELSE (IF count(lines[k], pattern) > 0
              THEN <<[path |-> str(Head(paths)), line_number |-> k,
                      line |-> rstrip(lines[k])]>>
              ELSE <<>>)
             \o grep_lines(k + 1)
  IN  IF paths = <<>> THEN <<>>
      ELSE grep_lines(1) \o grep_files(files, Tail(paths), pattern)

\* LocalBackend.grep_raw(pattern, path, glob=None, ignore_hidden), with
\* _grep_ripgrep and _grep_python; rg tells whether shutil.which("rg") found
\* ripgrep.  The files of a directory are searched in the order of their
\* paths, the hidden ones only when ignore_hidden is off; a file given as
\* the search path is searched whatever its name; a missing path is an
\* error of subprocess.run (its cwd) or of _grep_python.
grep_raw(files, pattern, path, ignore_hidden, rg) ==
  LET validated_path == _validate_path(IF path = None \/ path[1] = <<>>
                                       THEN str(_root) ELSE path[1])
      target == str(validated_path.value)
      is_file == validated_path.value \in DOMAIN files
      which == <<Event("which", "grep_raw", <<"r", "g">>)>>
               \o (IF rg THEN <<Event("is_file", "grep_raw", target)>> ELSE <<>>)
      searched == {p \in iterdir(files, validated_path.value) :
                     ~(ignore_hidden /\ \E k \in 1..Len(p) : p[k][1] = ".")}
  IN  IF validated_path.kind = "raise"
      THEN Done(Return(validated_path.message), files, <<>>)
      ELSE IF is_file
      THEN Done(Return(grep_files(files, <<validated_path.value>>, pattern)), files,
                which \o <<Event("exists", "grep_raw", target),
                           Event("open", "grep_raw", target)>>)
      ELSE IF ~relative_to(_root, validated_path.value)
      THEN Done(Return(IF rg
                       THEN <<"Error: ", "[Errno 2] No such file or directory: PosixPath('">>
                            \o target \o <<"')">>
                       ELSE <<"Error: Path '">> \o target \o <<"' not found">>),
                files,
                which \o (IF rg THEN <<Event("subprocess.run", "grep_raw", target)>>
                          ELSE <<Event("exists", "grep_raw", target)>>))
      ELSE Done(Return(grep_files(files, sorted(searched), pattern)), files,
                which \o (IF rg THEN <<Event("subprocess.run", "grep_raw", target)>>
                          ELSE <<Event("exists", "grep_raw", target),
                                 Event("rglob", "grep_raw", target)>>))

(***************************************************************************)
(* A LocalBackend and one caller of its synchronous methods.  A call runs  *)
(* to its outcome in one step; io holds the events of the call that is     *)
(* over, and is emptied when the caller takes the outcome.                 *)
(***************************************************************************)
\* The rulesets a backend is built with: the four presets,
\* PermissionRuleset(default="deny"), and a ruleset whose only rule, a deny
\* on reading /w/a, has no description.
BackendRulesets ==
  PresetRulesets
  \cup {PermissionRuleset("deny", [o \in PermissionOperation |-> None]),
        PermissionRuleset("ask",
          [o \in PermissionOperation |->
             IF o = "read"
             THEN Some(OperationPermissions("allow",
                         <<PermissionRule(<<"/", "w", "/", "a">>, "deny", "")>>))
             ELSE None])}

\* "a", ".env", "./a", "b/../a", "/w/a", ".", "../x", "/etc/p"
BackendPaths ==
  {<<"a">>, <<".", "e", "n", "v">>, <<".", "/", "a">>, <<"b", "/", ".", ".", "/", "a">>,
   <<"/", "w", "/", "a">>, <<".">>, <<".", ".", "/", "x">>, <<"/", "e", "t", "c", "/", "p">>}

\* "rm a", "sleep 9", "rm -rf /"
BackendCommands ==
  {<<"r", "m", " ", "a">>, <<"s", "l", "e", "e", "p", " ", "9">>, DANGEROUS_COMMANDS[2]}

\* LocalBackend(root_dir="/w", enable_execute=..., permissions=...,
\* ask_callback=..., ask_fallback=...) over a root that is empty or holds the
\* files a and .env
BackendInit ==
  /\ \/ _ruleset = None
     \/ _ruleset \in BackendRulesets
  /\ _ask_callback \in {None, Some("ask_user")}
  /\ _ask_fallback \in {"deny", "error"}
  /\ _enable_execute \in BOOLEAN
  /\ fs \in {<<>>,
             (_root \o << <<"a">> >> :> <<"x", "\n", "x">>)
             @@ (_root \o << <<".", "e", "n", "v">> >> :> <<"k", "x", "\n">>)}
  /\ io = <<>>
  /\ pc = "idle"
  /\ call = NoCall
  /\ result = NoResult
  /\ invoked = <<>>
  /\ awaited = None
  /\ NoThreads

\* The caller's call of a backend method runs to what the method gave.
BackendCall(fn, operation, target, done) ==
  /\ pc = "idle"
  /\ pc' = "done"
  /\ call' = Call(fn, operation, target, "")
  /\ result' = done.outcome
  /\ fs' = done.fs
  /\ io' = done.io
  /\ invoked' = <<>>
  /\ awaited' = None
  /\ UNCHANGED <<checker, _enable_execute, threads>>

\* The caller takes the outcome and is ready for its next call.
BackendFinish ==
  /\ pc = "done"
  /\ pc' = "idle"
  /\ call' = NoCall
  /\ result' = NoResult
  /\ io' = <<>>
  /\ invoked' = <<>>
  /\ awaited' = None
  /\ UNCHANGED <<checker, _enable_execute, fs, threads>>

BackendNext ==
  \/ \E path \in BackendPaths, offset \in {0, 1}, limit \in {1, 2000} :
       BackendCall("read", "read", path,
                   read(fs, _ruleset, _ask_fallback, path, offset, limit))
  \/ \E path \in BackendPaths, content \in {<<"x", "\n", "x">>} :
       BackendCall("write", "write", path,
                   write(fs, _ruleset, _ask_fallback, path, content))
  \/ \E path \in BackendPaths, old_string \in {<<"x">>}, new_string \in {<<"y">>},
        replace_all \in BOOLEAN :
       BackendCall("edit", "edit", path,
                   edit(fs, _ruleset, _ask_fallback, path, old_string, new_string,
                        replace_all))
  \/ \E command \in BackendCommands, timeout \in {None, Some(0), Some(1)} :
       BackendCall("execute", "execute", command,
                   execute(fs, _ruleset, _ask_fallback, _enable_execute, command, timeout))
  \/ \E path \in BackendPaths :
       BackendCall("ls_info", "ls", path, ls_info(fs, path))
  \/ \E pattern \in {<<"*">>, <<"?">>}, path \in BackendPaths :
       BackendCall("glob_info", "glob", path, glob_info(fs, pattern, path))
  \/ \E pattern \in {<<"x">>}, path \in {None, Some(<<"a">>), Some(<<".", ".">>)},
        ignore_hidden \in BOOLEAN, rg \in BOOLEAN :
       BackendCall("grep_raw", "grep", IF path = None THEN str(_root) ELSE path[1],
                   grep_raw(fs, pattern, path, ignore_hidden, rg))
  \/ BackendFinish

BackendSpec == BackendInit /\ [][BackendNext]_vars

(***************************************************************************)
(* permissions/checker.py: _matches_pattern called on its own, as the      *)
(* tests of the matcher call it.  No checker and no backend is built.      *)
(***************************************************************************)
\* Longest text put inside or around the fixed parts of a target
MaxExtra == 2

\* The characters those texts are written with
GlobChars == {"a", "1", "!", "/", "\n"}

GlobTexts == UNION {[1..k -> GlobChars] : k \in 0..MaxExtra}

GlobPatterns ==
  {<<".", "e", "n", "v">>,
   <<"*", "*", "/", "*", ".", "p", "y">>,
   <<"*", "*", "/", "a">>,
   <<"*", ".", "t", "x", "t">>,
   <<"f", "i", "l", "e", "?", ".", "t", "x", "t">>,
   <<"*", "*", "/", "s", "e", "c", "r", "e", "t", "s", "/", "*", "*">>,
   <<"/", "e", "t", "c", "/", "*", "*">>,
   <<"f", "i", "l", "e", "[", "!", "1", "2", "3", "]", ".", "t", "x", "t">>,
   <<"f", "i", "l", "e", "[", "^", "1", "2", "3", "]", ".", "t", "x", "t">>,
   <<"f", "i", "l", "e", "[", "]", "a", "b", "c", "]", ".", "t", "x", "t">>,
   <<"f", "i", "l", "e", "[", "!", "]", "a", "]", ".", "t", "x", "t">>,
   <<"f", "i", "l", "e", "[", "^", "]", "a", "]", ".", "t", "x", "t">>,
   <<"f", "i", "l", "e", "[", ".", "t", "x", "t">>}

\* The fixed parts a text is put between
GlobFrames ==
  {<< <<".", "e", "n", "v">>, <<>> >>,
   << <<>>, <<".", "e", "n", "v">> >>,
   << <<>>, <<"/", "a">> >>,
   << <<>>, <<"a">> >>,
   << <<>>, <<".", "t", "x", "t">> >>,
   << <<"f", "i", "l", "e">>, <<".", "t", "x", "t">> >>,
   << <<"/", "e", "t", "c", "/">>, <<>> >>,
   << <<"s", "e", "c", "r", "e", "t", "s", "/">>, <<>> >>,
   << <<"a", "/", "s", "e", "c", "r", "e", "t", "s", "/">>, <<>> >>}

GlobTargets ==
  {<<"a", ".", "p", "y">>,
   <<"s", "r", "c", "/", "a", ".", "p", "y">>,
   <<"a", "/", "b", "/", "c", "/", "a", ".", "p", "y">>,
   <<"a", ".", "p", "y", ".", "b", "a", "k">>,
   <<"a", "/", "p", "y">>,
   <<"f", "i", "l", "e", ".", "t", "x", "t">>,
   <<"d", "i", "r", "/", "f", "i", "l", "e", ".", "t", "x", "t">>,
   <<"f", "i", "l", "e", "1", "2", ".", "t", "x", "t">>,
   <<"f", "i", "l", "e", "4", ".", "t", "x", "t">>,
   <<"f", "i", "l", "e", "]", ".", "t", "x", "t">>,
   <<"f", "i", "l", "e", "b", ".", "t", "x", "t">>,
   <<"f", "i", "l", "e", "d", ".", "t", "x", "t">>,
   <<"f", "i", "l", "e", "[", ".", "t", "x", "t">>,
   <<"f", "i", "l", "e", "!", "a", "]", ".", "t", "x", "t">>}
  \cup {frame[1] \o text \o frame[2] : frame \in GlobFrames, text \in GlobTexts}

GlobInit ==
  /\ _ruleset = None
  /\ _ask_callback = None
  /\ _ask_fallback = "deny"
  /\ pc = "idle"
  /\ call = NoCall
  /\ result = NoResult
  /\ invoked = <<>>
  /\ awaited = None
  /\ NoBackend
  /\ NoThreads

\* _matches_pattern(target, pattern)
CallMatchesPattern(target, pattern) ==
  /\ pc = "idle"
  /\ pc' = "done"
  /\ call' = [fn |-> "_matches_pattern", target |-> target, pattern |-> pattern]
  /\ result' = Return(_matches_pattern(target, pattern))
  /\ invoked' = <<>>
  /\ awaited' = None
  /\ UNCHANGED <<checker, backend, threads>>

GlobNext ==
  \/ \E target \in GlobTargets, pattern \in GlobPatterns :
       CallMatchesPattern(target, pattern)
  \/ Finish

GlobSpec == GlobInit /\ [][GlobNext]_vars

(***************************************************************************)
(* permissions/presets.py: create_ruleset called on its own.               *)
(***************************************************************************)
\* Mutant: a flag that is off makes the operation's default deny.
_action_Deny(allowed) == IF allowed THEN "allow" ELSE "deny"

\* def _action(allowed): return "allow" if allowed else "ask"
_action(allowed) == IF allowed THEN "allow" ELSE "ask"

\* create_ruleset(default=..., allow_read=..., ..., deny_secrets=...)
create_ruleset(default, allow_read, allow_write, allow_edit, allow_execute, allow_glob, allow_grep, allow_ls, deny_secrets) ==
  LET secret_rules == IF deny_secrets
                      THEN _create_deny_rules(SECRETS_PATTERNS, "Protect sensitive files")
                      ELSE <<>>
  IN  PermissionRuleset(default,
        ("read" :> Some(OperationPermissions(_action(allow_read), secret_rules))) @@
        ("write" :> Some(OperationPermissions(_action(allow_write), secret_rules))) @@
        ("edit" :> Some(OperationPermissions(_action(allow_edit), secret_rules))) @@
        ("execute" :> DefaultOnly(_action(allow_execute))) @@
        ("glob" :> DefaultOnly(_action(allow_glob))) @@
        ("grep" :> DefaultOnly(_action(allow_grep))) @@
        ("ls" :> DefaultOnly(_action(allow_ls))))

\* The caller's call of create_ruleset; allow holds the seven allow_* flags
\* by operation.
CallCreateRuleset(default, allow, deny_secrets) ==
  /\ pc = "idle"
  /\ pc' = "done"
  /\ call' = [fn |-> "create_ruleset", default |-> default, allow |-> allow,
              deny_secrets |-> deny_secrets]
  /\ result' = Return(create_ruleset(default, allow["read"], allow["write"], allow["edit"],
                                     allow["execute"], allow["glob"], allow["grep"],
                                     allow["ls"], deny_secrets))
  /\ invoked' = <<>>
  /\ awaited' = None
  /\ UNCHANGED <<checker, backend, threads>>

FactoryNext ==
  \/ \E default \in PermissionAction, allow \in [PermissionOperation -> BOOLEAN],
        deny_secrets \in BOOLEAN :
       CallCreateRuleset(default, allow, deny_secrets)
  \/ Finish

FactorySpec == GlobInit /\ [][FactoryNext]_vars

(***************************************************************************)
(* A checker and a ruleset given what the type hints do not keep out: an   *)
(* operation name outside PermissionOperation, a rule whose pattern no     *)
(* regular expression can be compiled from.                                *)
(***************************************************************************)
\* "default" is another field of the ruleset, "delete" is no attribute of it
OperationNames == PermissionOperation \cup {"default", "delete"}

\* "a", "[a-z]", "[z-a]", "[\]"
AnyPatterns == {<<"a">>, <<"[", "a", "-", "z", "]">>, <<"[", "z", "-", "a", "]">>,
                <<"[", "\\", "]">>}

AnyRulesets ==
  {PermissionRuleset(default, [o \in PermissionOperation |-> None]) :
     default \in PermissionAction}
  \cup {PermissionRuleset(default,
          [o \in PermissionOperation |->
             IF o = "read"
             THEN Some(OperationPermissions("allow", <<PermissionRule(pattern, "deny", "")>>))
             ELSE None]) :
          default \in PermissionAction, pattern \in AnyPatterns}

\* PermissionChecker(ruleset=ruleset)
AnyInit ==
  /\ _ruleset \in AnyRulesets
  /\ _ask_callback = None
  /\ _ask_fallback = "error"
  /\ pc = "idle"
  /\ call = NoCall
  /\ result = NoResult
  /\ invoked = <<>>
  /\ awaited = None
  /\ NoBackend
  /\ NoThreads

AnyNext ==
  \/ \E operation \in OperationNames : CallGetOperationPermissions(operation)
  \/ \E operation \in PermissionOperation, target \in Targets :
       \/ CallCheckSync(operation, target)
       \/ CallFindMatchingRule(operation, target)
  \/ Finish

AnySpec == AnyInit /\ [][AnyNext]_vars

(***************************************************************************)
(* Properties.                                                             *)
(***************************************************************************)
\* The caller's call of fn is over.
Over(fn) == pc = "done" /\ call.fn = fn

\* The caller's call of check has begun.
InCheck == pc # "idle" /\ call.fn = "check"

Configured(operation) == _ruleset[operation] # None

\* The rule list the ruleset holds for the operation (empty when it holds none)
RulesOf(operation) ==
  IF Configured(operation) THEN _ruleset[operation][1].rules ELSE <<>>

\* The positions of the rules whose pattern matches the target
Matching(rules, target) ==
  {k \in 1..Len(rules) : _matches_pattern(target, rules[k].pattern)}

Least(S) == CHOOSE k \in S : \A j \in S : k <= j

CallRules == RulesOf(call.operation)

CallMatching == Matching(CallRules, call.target)

\* What check_sync gives for the arguments of the current call
Decision == check_sync(_ruleset, call.operation, call.target)

CallArgs == <<call.operation, call.target, call.reason>>

\* C1: check_sync on a configured operation returns the action of the first
\* rule, in list order, whose pattern matches the target, whatever later
\* rules match too.
C1_FirstMatchWins ==
  (Over("check_sync") /\ Configured(call.operation) /\ CallMatching # {})
    => result = Return(CallRules[Least(CallMatching)].action)

\* C1 witness: two rules with different actions match, the first one decided.
C1_Witness ==
  /\ Over("check_sync")
  /\ Configured(call.operation)
  /\ \E j, k \in CallMatching :
       /\ j < k
       /\ j = Least(CallMatching)
       /\ CallRules[j].action # CallRules[k].action
       /\ result = Return(CallRules[j].action)

\* C2: check_sync on a configured operation none of whose rules matches the
\* target returns that operation's own default, never the global default.
C2_OperationDefault ==
  (Over("check_sync") /\ Configured(call.operation) /\ CallMatching = {})
    => result = Return(_ruleset[call.operation][1].default)

\* C2 witness: rules exist, none matches, and the two defaults differ.
C2_Witness ==
  /\ Over("check_sync")
  /\ Configured(call.operation)
  /\ CallRules # <<>>
  /\ CallMatching = {}
  /\ _ruleset[call.operation][1].default # _ruleset["default"]
  /\ result = Return(_ruleset[call.operation][1].default)

\* C3: get_operation_permissions returns, for each of the seven operations,
\* the configured permissions when present and otherwise permissions with the
\* global default and no rules; check_sync on an unconfigured operation
\* returns the global default.
C3_PermissionsTotal ==
  /\ Over("get_operation_permissions") =>
       result = Return(IF Configured(call.operation)
                       THEN _ruleset[call.operation][1]
                       ELSE OperationPermissions(_ruleset["default"], <<>>))
  /\ (Over("check_sync") /\ ~Configured(call.operation)) =>
       result = Return(_ruleset["default"])

\* C3 witness: an unconfigured operation of a ruleset that configures others
\* with another default, decided by the global default, which is not allow.
C3_Witness ==
  /\ Over("check_sync")
  /\ ~Configured(call.operation)
  /\ \E o \in PermissionOperation :
       Configured(o) /\ _ruleset[o][1].default # _ruleset["default"]
  /\ _ruleset["default"] # "allow"
  /\ result = Return(_ruleset["default"])

\* C4: check returns True only when check_sync gives allow, or gives ask and
\* the callback was invoked and returned a truthy value; never on deny.
C4_TrueOnlyIfAllowedOrApproved ==
  (Over("check") /\ result = Return(TRUE)) =>
    \/ Decision = Return("allow")
    \/ /\ Decision = Return("ask")
       /\ invoked = <<CallArgs>>
       /\ awaited # None
       /\ awaited[1].kind = "return"
       /\ Truthy(awaited[1].value)

\* C4 witness: check returned True on an ask the callback approved.
C4_Witness ==
  /\ Over("check")
  /\ result = Return(TRUE)
  /\ Decision = Return("ask")
  /\ awaited = Some(Return("yes"))

\* C5: on deny, check raises PermissionDeniedError with the operation and the
\* target of the call and with the first matching rule (a deny rule), or with
\* no rule exactly when no rule matches.
C5_DeniedCarriesRule ==
  (Over("check") /\ Decision = Return("deny")) =>
    /\ result = PermissionDeniedError(call.operation, call.target,
                  IF CallMatching = {} THEN None
                  ELSE Some(CallRules[Least(CallMatching)]))
    /\ CallMatching # {} => CallRules[Least(CallMatching)].action = "deny"

\* C5 witness: a deny rule decided although a later rule matches too, and the
\* exception carries it.
C5_Witness ==
  /\ Over("check")
  /\ Decision = Return("deny")
  /\ Cardinality(CallMatching) > 1
  /\ result.kind = "raise"
  /\ result.rule = Some(CallRules[Least(CallMatching)])

C8_CallbackOnlyOnAsk ==
  /\ Len(invoked) <= 1
  /\ invoked # <<>> =>
       /\ call.fn = "check"
       /\ Decision = Return("ask")
       /\ _ask_callback # None
       /\ invoked[1] = CallArgs
  /\ (pc = "awaiting" \/ awaited # None) => invoked # <<>>

\* C8 witness: check waits for the callback it invoked with a reason.
C8_Witness ==
  /\ pc = "awaiting"
  /\ call.reason # ""
  /\ invoked = <<CallArgs>>

\* C9: on allow, check returns True without raising, waiting or invoking the
\* callback, whatever callback and fallback are configured.
C9_AllowReturnsTrue ==
  (InCheck /\ Decision = Return("allow")) =>
    /\ pc = "done"
    /\ result = Return(TRUE)
    /\ invoked = <<>>
    /\ awaited = None

\* C9 witness: allowed by a rule while a callback is configured.
C9_Witness ==
  /\ Over("check")
  /\ Decision = Return("allow")
  /\ CallMatching # {}
  /\ _ask_callback # None
  /\ result = Return(TRUE)

\* C10: is_allowed, is_denied and requires_approval return whether check_sync
\* gives allow, deny and ask, and exactly one of the three returns True.
C10_ExactlyOnePredicate ==
  /\ Over("is_allowed") => result = Return(Decision = Return("allow"))
  /\ Over("is_denied") => result = Return(Decision = Return("deny"))
  /\ Over("requires_approval") => result = Return(Decision = Return("ask"))
  /\ (pc = "done" /\ call.fn \in {"is_allowed", "is_denied", "requires_approval"}) =>
       Cardinality({r \in {<<1, is_allowed(_ruleset, call.operation, call.target)>>,
                           <<2, is_denied(_ruleset, call.operation, call.target)>>,
                           <<3, requires_approval(_ruleset, call.operation, call.target)>>} :
                      r[2] = Return(TRUE)}) = 1

\* C10 witness: an ask is reported by requires_approval and by neither of the
\* other two.
C10_Witness ==
  /\ Over("requires_approval")
  /\ result = Return(TRUE)
  /\ is_allowed(_ruleset, call.operation, call.target) = Return(FALSE)
  /\ is_denied(_ruleset, call.operation, call.target) = Return(FALSE)

\* C11: check_sync is a function of (ruleset, operation, target) only: no
\* step of any thread changes the ruleset, its rules, the callback or the
\* fallback, so every check_sync that ends, after whatever calls came before
\* it and however the threads' steps interleave, returns what the ruleset
\* gives for its arguments, and two calls with the same arguments that have
\* ended returned the same action.
C11_CheckSyncIsAFunction ==
  [][/\ checker' = checker
     /\ \A t \in Threads :
          (threads'[t].pc = "done" /\ threads'[t].fn = "check_sync") =>
            /\ threads'[t].result =
                 check_sync(_ruleset, threads'[t].operation, threads'[t].target)
            /\ \A u \in Threads :
                 (/\ threads'[u].pc = "done"
                  /\ threads'[u].fn = "check_sync"
                  /\ threads'[u].operation = threads'[t].operation
                  /\ threads'[u].target = threads'[t].target) =>
                   threads'[u].result = threads'[t].result]_vars

\* C11 witness: the caller's check_sync returned ask while the other
\* thread's check of the same operation and target waits for the callback.
C11_Witness ==
  /\ threads["caller"].pc = "done"
  /\ threads["caller"].fn = "check_sync"
  /\ threads["caller"].result = Return("ask")
  /\ threads["other"].pc = "awaiting"
  /\ threads["other"].operation = threads["caller"].operation
  /\ threads["other"].target = threads["caller"].target

\* The target matches at least one entry of SECRETS_PATTERNS.
MatchesSecret(target) ==
  \E k \in 1..Len(SECRETS_PATTERNS) : _matches_pattern(target, SECRETS_PATTERNS[k])

\* C12: under each of the four presets check_sync("read", t) returns deny for
\* every target t that matches an entry of SECRETS_PATTERNS; under STRICT a
\* read of /x/.env is deny, not the ask that is the default of read.
C12_PresetsDenySecretReads ==
  /\ (Over("check_sync") /\ call.operation = "read" /\ MatchesSecret(call.target)) =>
       result = Return("deny")
  /\ (/\ Over("check_sync")
      /\ _ruleset = STRICT_RULESET
      /\ call.operation = "read"
      /\ call.target = <<"/", "x", "/", ".", "e", "n", "v">>) =>
       result = Return("deny")

\* C12 witness: STRICT, whose default for read is ask, denied the read of
\* /x/.env.
C12_Witness ==
  /\ Over("check_sync")
  /\ _ruleset = STRICT_RULESET
  /\ _ruleset["read"][1].default = "ask"
  /\ call.operation = "read"
  /\ call.target = <<"/", "x", "/", ".", "e", "n", "v">>
  /\ result = Return("deny")

\* The caller's call of one of the backend's methods is over.
BackendOver(fns) == pc = "done" /\ call.fn \in fns

\* The backend call c gets as far as its permission check: its path lies in
\* an allowed directory, or execution is enabled.
Reaches(c) ==
  /\ _ruleset # None
  /\ IF c.fn = "execute" THEN _enable_execute ELSE _validate_path(c.target).kind = "return"

\* The target the backend call c hands to the checker: the resolved path, or
\* the command.
CheckedTarget(c) ==
  IF c.fn = "execute" THEN c.target ELSE str(_validate_path(c.target).value)

\* The decision of the ruleset for the backend call c
BackendDecision(c) == check_sync(_ruleset, c.operation, CheckedTarget(c))

\* Those of the events that are not calls of checker methods
Performed(events) ==
  SelectSeq(events, LAMBDA e : e.kind \notin {"check_sync", "_find_matching_rule"})

\* The outcome r is the failure form of the method that c calls: an
\* "Error: ..." string, a WriteResult or EditResult with error set, an
\* ExecuteResponse with exit_code 1.
IsFailure(c, r) ==
  /\ r.kind = "return"
  /\ IF c.fn = "read" THEN r.value # <<>> /\ r.value[1] = "Error: "
     ELSE IF c.fn = "execute"
     THEN /\ r.value.type = "ExecuteResponse"
          /\ r.value.exit_code = 1
          /\ r.value.output[1] = "Error: "
     ELSE /\ r.value.type = (IF c.fn = "write" THEN "WriteResult" ELSE "EditResult")
          /\ r.value.error # None
          /\ r.value.path = None

DenyAll == PermissionRuleset("deny", [o \in PermissionOperation |-> None])

\* C14: a LocalBackend built with a ruleset consults the synchronous decision
\* path, with the operation and the target, before performing each of its
\* seven operations, and when the ruleset decides deny for glob, grep or ls
\* the call does not list, match or search any file.
C14_SevenOperationsConsult ==
  (/\ BackendOver({"read", "write", "edit", "execute", "ls_info", "glob_info", "grep_raw"})
   /\ Reaches(call)) =>
    /\ io # <<>>
    /\ io[1] = Event("check_sync", call.operation, CheckedTarget(call))
    /\ (/\ call.fn \in {"ls_info", "glob_info", "grep_raw"}
        /\ BackendDecision(call) = Return("deny")) => Performed(io) = <<>>

\* C14 witness: under a ruleset that denies everything, ls_info(".") made no
\* call of the checker, listed the root and returned the entries of its two
\* files.
C14_Witness ==
  /\ BackendOver({"ls_info"})
  /\ _ruleset = DenyAll
  /\ call.target = <<".">>
  /\ BackendDecision(call) = Return("deny")
  /\ \A k \in 1..Len(io) : io[k].kind # "check_sync"
  /\ \E k \in 1..Len(io) : io[k].kind = "iterdir"
  /\ result.kind = "return"
  /\ Len(result.value) = 2

\* The message m of a refusal says that approval is required
ApprovalRequired(m) == m # <<>> /\ m[Len(m)] = "' (approval required)"

\* The error text that the failure form r of the method of c carries
FailureText(c, r) ==
  IF c.fn = "read" THEN Tail(r.value)
  ELSE IF c.fn = "execute" THEN Tail(r.value.output)
  ELSE r.value.error[1]

GlobOver(pattern) == pc = "done" /\ call.fn = "_matches_pattern" /\ call.pattern = pattern

\* What _matches_pattern returned
Matched == result = Return(TRUE)

\* target.startswith(prefix)
StartsWith(target, prefix) ==
  Len(prefix) <= Len(target) /\ SubSeq(target, 1, Len(prefix)) = prefix

\* target.endswith(suffix)
EndsWith(target, suffix) ==
  /\ Len(suffix) <= Len(target)
  /\ SubSeq(target, Len(target) - Len(suffix) + 1, Len(target)) = suffix

\* The character c occurs in the text
Holds(text, c) == \E k \in 1..Len(text) : text[k] = c

\* The pattern holds none of the characters the scanner treats specially
IsLiteral(pattern) == ~Holds(pattern, "*") /\ ~Holds(pattern, "?") /\ ~Holds(pattern, "[")

\* C16: for every pattern without glob metacharacters and every target,
\* whatever characters it holds, _matches_pattern is True if and only if the
\* target equals the pattern (the match consumes the whole target): ".env"
\* matches ".env" and nothing longer or shorter.
C16_FullStringMatch ==
  (/\ pc = "done"
   /\ call.fn = "_matches_pattern"
   /\ IsLiteral(call.pattern)) => (Matched <=> call.target = call.pattern)

\* C16 witness: the target ".env\n", one character longer than the pattern
\* ".env", matched it.
C16_Witness ==
  /\ GlobOver(<<".", "e", "n", "v">>)
  /\ call.target = <<".", "e", "n", "v", "\n">>
  /\ Matched

\* C17: "**/*.py" matches "a.py", "src/a.py" and "a/b/c/a.py" and neither
\* "a.py.bak" nor "a/py"; "**/a" matches the bare target "a" and every
\* target that ends in "/a", and no target whose last segment is longer than
\* "a" and merely ends with it.
C17_LeadingDoubleStarSlash ==
  /\ GlobOver(<<"*", "*", "/", "*", ".", "p", "y">>) =>
       /\ call.target \in {<<"a", ".", "p", "y">>,
                           <<"s", "r", "c", "/", "a", ".", "p", "y">>,
                           <<"a", "/", "b", "/", "c", "/", "a", ".", "p", "y">>} => Matched
       /\ call.target \in {<<"a", ".", "p", "y", ".", "b", "a", "k">>,
                           <<"a", "/", "p", "y">>} => ~Matched
  /\ GlobOver(<<"*", "*", "/", "a">>) =>
       /\ (call.target = <<"a">> \/ EndsWith(call.target, <<"/", "a">>)) => Matched
       /\ (/\ EndsWith(call.target, <<"a">>)
           /\ call.target # <<"a">>
           /\ ~EndsWith(call.target, <<"/", "a">>)) => ~Matched

\* C17 witness: the target "\n/a" ends in "/a", its first segment holding a
\* line feed, and "**/a" did not match it.
C17_Witness ==
  /\ GlobOver(<<"*", "*", "/", "a">>)
  /\ call.target = <<"\n", "/", "a">>
  /\ ~Matched

\* The text between "file" and ".txt" in the target
Between(target) == SubSeq(target, 5, Len(target) - 4)

\* The target is "file", a text and ".txt"
IsFileTxt(target) ==
  /\ Len(target) >= 8
  /\ StartsWith(target, <<"f", "i", "l", "e">>)
  /\ EndsWith(target, <<".", "t", "x", "t">>)

HasSecretsSegment(target) ==
  \E k \in 1..Len(target) :
    /\ k = 1 \/ target[k - 1] = "/"
    /\ StartsWith(SubSeq(target, k, Len(target)), <<"s", "e", "c", "r", "e", "t", "s", "/">>)

\* C19: a "**" that no "/" follows matches every run of characters, of any
\* length, with "/"s and empty: "/etc/**" matches every target that begins
\* with "/etc/", "**/secrets/**" every target that has a "secrets/" segment.
C19_DoubleStarMatchesAnything ==
  /\ (/\ GlobOver(<<"/", "e", "t", "c", "/", "*", "*">>)
      /\ StartsWith(call.target, <<"/", "e", "t", "c", "/">>)) => Matched
  /\ (/\ GlobOver(<<"*", "*", "/", "s", "e", "c", "r", "e", "t", "s", "/", "*", "*">>)
      /\ HasSecretsSegment(call.target)) => Matched

\* C19 witness: "/etc/**" did not match "/etc/\na", which begins with "/etc/".
C19_Witness ==
  /\ GlobOver(<<"/", "e", "t", "c", "/", "*", "*">>)
  /\ call.target = <<"/", "e", "t", "c", "/", "\n", "a">>
  /\ ~Matched

\* C20: a "!" that leads a bracket expression is a member of it and a "^"
\* negates it: "file[!123].txt" matches "file", a text and ".txt" if and only
\* if the text is one of the characters "!", "1", "2", "3" (so "file!.txt"
\* and "file1.txt", not "file4.txt"), and "file[^123].txt" if and only if it
\* is one character other than "1", "2", "3" (so "file4.txt", not
\* "file1.txt").
C20_BangIsMemberCaretNegates ==
  /\ (/\ GlobOver(<<"f", "i", "l", "e", "[", "!", "1", "2", "3", "]", ".", "t", "x", "t">>)
      /\ IsFileTxt(call.target)) =>
       (Matched <=> Between(call.target) \in {<<"!">>, <<"1">>, <<"2">>, <<"3">>})
  /\ (/\ GlobOver(<<"f", "i", "l", "e", "[", "^", "1", "2", "3", "]", ".", "t", "x", "t">>)
      /\ IsFileTxt(call.target)) =>
       (Matched <=> (Len(Between(call.target)) = 1
                     /\ Between(call.target) \notin {<<"1">>, <<"2">>, <<"3">>}))

\* C20 witness: "file[!123].txt" matched "file!.txt".
C20_Witness ==
  /\ GlobOver(<<"f", "i", "l", "e", "[", "!", "1", "2", "3", "]", ".", "t", "x", "t">>)
  /\ call.target = <<"f", "i", "l", "e", "!", ".", "t", "x", "t">>
  /\ Matched

\* C21: a "]" that comes first in a bracket expression, directly after "["
\* or after a leading "!" or "^", is a member of the class, which extends to
\* the next "]": "file[]abc].txt" matches "file", a text and ".txt" exactly
\* when the text is one of "]", "a", "b", "c"; "file[!]a].txt" exactly when
\* it is one of "!", "]", "a"; "file[^]a].txt" exactly when it is one
\* character other than "]" and "a"; and "file[.txt", which has no closing
\* "]", matches among these targets only "file[.txt".
C21_BracketScanning ==
  /\ (/\ GlobOver(<<"f", "i", "l", "e", "[", "]", "a", "b", "c", "]", ".", "t", "x", "t">>)
      /\ IsFileTxt(call.target)) =>
       (Matched <=> Between(call.target) \in {<<"]">>, <<"a">>, <<"b">>, <<"c">>})
  /\ (/\ GlobOver(<<"f", "i", "l", "e", "[", "!", "]", "a", "]", ".", "t", "x", "t">>)
      /\ IsFileTxt(call.target)) =>
       (Matched <=> Between(call.target) \in {<<"!">>, <<"]">>, <<"a">>})
  /\ (/\ GlobOver(<<"f", "i", "l", "e", "[", "^", "]", "a", "]", ".", "t", "x", "t">>)
      /\ IsFileTxt(call.target)) =>
       (Matched <=> (Len(Between(call.target)) = 1
                     /\ Between(call.target) \notin {<<"]">>, <<"a">>}))
  /\ (/\ GlobOver(<<"f", "i", "l", "e", "[", ".", "t", "x", "t">>)
      /\ IsFileTxt(call.target)) =>
       (Matched <=> Between(call.target) = <<"[">>)

\* C21 witness: "file[!]a].txt" did not match "file].txt"; the scanner took
\* "[!]a]" as the class, the match closed the class at the first "]".
C21_Witness ==
  /\ GlobOver(<<"f", "i", "l", "e", "[", "!", "]", "a", "]", ".", "t", "x", "t">>)
  /\ call.target = <<"f", "i", "l", "e", "]", ".", "t", "x", "t">>
  /\ ~Matched

\* C22: under STRICT_RULESET check_sync never returns allow: for each of the
\* seven operations and every target it returns ask or deny.
C22_StrictNeverAllows ==
  (Over("check_sync") /\ _ruleset = STRICT_RULESET) =>
    result \in {Return("ask"), Return("deny")}

\* C22 witness: under STRICT_RULESET check_sync("ls", "/x/a.py") returned ask.
C22_Witness ==
  /\ Over("check_sync")
  /\ _ruleset = STRICT_RULESET
  /\ call.operation = "ls"
  /\ call.target = <<"/", "x", "/", "a", ".", "p", "y">>
  /\ result = Return("ask")

\* C23: under READONLY_RULESET check_sync returns deny for write, edit and
\* execute on every target, allow for glob, grep and ls on every target, and
\* for read deny when the target matches an entry of SECRETS_PATTERNS and
\* allow otherwise; it never returns ask.
C23_ReadonlyDecisions ==
  (Over("check_sync") /\ _ruleset = READONLY_RULESET) =>
    /\ call.operation \in {"write", "edit", "execute"} => result = Return("deny")
    /\ call.operation \in {"glob", "grep", "ls"} => result = Return("allow")
    /\ call.operation = "read" =>
         result = Return(IF MatchesSecret(call.target) THEN "deny" ELSE "allow")
    /\ result # Return("ask")

\* C23 witness: under READONLY_RULESET check_sync("execute", "ls") returned
\* deny.
C23_Witness ==
  /\ Over("check_sync")
  /\ _ruleset = READONLY_RULESET
  /\ call.operation = "execute"
  /\ call.target = <<"l", "s">>
  /\ result = Return("deny")

\* The command is "dd if=<source> of=/dev/<device>"
IsRawDiskWrite(command) ==
  /\ StartsWith(command, <<"d", "d", " ", "i", "f", "=">>)
  /\ \E k \in 7..Len(command) :
       /\ StartsWith(SubSeq(command, k, Len(command)),
                     <<" ", "o", "f", "=", "/", "d", "e", "v", "/">>)
       /\ k + 9 <= Len(command)
       /\ \A j \in (k + 9)..Len(command) : command[j] \notin {"/", " "}

\* The command belongs to one of the families the deny list names
IsCatastrophic(command) ==
  \/ command \in {DANGEROUS_COMMANDS[1], DANGEROUS_COMMANDS[2], DANGEROUS_COMMANDS[3],
                  DANGEROUS_COMMANDS[7]}
  \/ StartsWith(command, <<"m", "k", "f", "s">>)
  \/ IsRawDiskWrite(command)

\* C24: under PERMISSIVE_RULESET and DEFAULT_RULESET check_sync("execute", c)
\* returns deny for every command c that is "rm -rf /", "rm -rf /*", the fork
\* bomb, "chmod -R 777 /", begins with "mkfs" or is a raw-disk write
\* "dd if=<source> of=/dev/<device>", whatever the source path; a command
\* that no entry of DANGEROUS_COMMANDS matches gets the default of execute.
C24_CatastrophicCommandsDenied ==
  (/\ Over("check_sync")
   /\ _ruleset \in {PERMISSIVE_RULESET, DEFAULT_RULESET}
   /\ call.operation = "execute") =>
    /\ IsCatastrophic(call.target) => result = Return("deny")
    /\ (\A k \in 1..Len(DANGEROUS_COMMANDS) :
          ~_matches_pattern(call.target, DANGEROUS_COMMANDS[k])) =>
         result = Return(_ruleset["execute"][1].default)

\* C24 witness: under PERMISSIVE_RULESET check_sync("execute",
\* "mkfs.ext4 /dev/sda") returned allow.
C24_Witness ==
  /\ Over("check_sync")
  /\ _ruleset = PERMISSIVE_RULESET
  /\ call.operation = "execute"
  /\ call.target = <<"m", "k", "f", "s", ".", "e", "x", "t", "4", " ", "/", "d", "e", "v",
                     "/", "s", "d", "a">>
  /\ result = Return("allow")

\* The targets the rulesets of create_ruleset are asked about
FactoryTargets ==
  {<<".", "e", "n", "v">>,
   <<"a", "/", ".", "e", "n", "v">>,
   <<"a", "/", "i", "d", ".", "k", "e", "y">>,
   <<".", "e", "n", "v", "\n">>,
   <<"a", ".", "p", "y">>,
   <<"/", "e", "t", "c", "/", "p">>,
   <<"r", "m", " ", "-", "r", "f", " ", "/">>}

\* C25: the ruleset create_ruleset returns configures all seven operations,
\* each with the default allow when its allow_* flag is true and ask when it
\* is false; with deny_secrets true, read, write and edit of a target that
\* matches an entry of SECRETS_PATTERNS are denied whatever the flag, and no
\* other decision is deny (none at all with deny_secrets false): every other
\* decision is the operation's default.
C25_CreateRuleset ==
  Over("create_ruleset") =>
    \A operation \in PermissionOperation :
      /\ result.value[operation] # None
      /\ result.value[operation][1].default =
           (IF call.allow[operation] THEN "allow" ELSE "ask")
      /\ \A target \in FactoryTargets :
           check_sync(result.value, operation, target) =
             Return(IF /\ call.deny_secrets
                       /\ operation \in {"read", "write", "edit"}
                       /\ MatchesSecret(target)
                    THEN "deny"
                    ELSE IF call.allow[operation] THEN "allow" ELSE "ask")

\* C25 witness: create_ruleset(default="deny", allow_read=True, the other
\* flags False, deny_secrets=True) returned a ruleset that denies the read of
\* "a/.env", allows the read of "a.py" and asks for the command "rm -rf /".
C25_Witness ==
  /\ Over("create_ruleset")
  /\ call.default = "deny"
  /\ call.deny_secrets
  /\ call.allow = [o \in PermissionOperation |-> o = "read"]
  /\ check_sync(result.value, "read", <<"a", "/", ".", "e", "n", "v">>) = Return("deny")
  /\ check_sync(result.value, "read", <<"a", ".", "p", "y">>) = Return("allow")
  /\ check_sync(result.value, "execute", <<"r", "m", " ", "-", "r", "f", " ", "/">>)
       = Return("ask")

\* The text holds the part, piece by piece
Includes(text, part) ==
  \E k \in 0..(Len(text) - Len(part)) : SubSeq(text, k + 1, k + Len(part)) = part

\* The text names the operation and holds the target verbatim
NamesOperationAndTarget(text, operation, target) ==
  Includes(text, <<operation>>) /\ Includes(text, target)

\* C26: every permission failure of read, write, edit and execute of a
\* LocalBackend names the operation and holds the target verbatim: the
\* message of the PermissionError it raises, and the error text it returns
\* for a deny or an ask, also when a rule with a description caused the
\* denial.
C26_FailuresNameOperationAndTarget ==
  (/\ BackendOver({"read", "write", "edit", "execute"})
   /\ Reaches(call)
   /\ BackendDecision(call) \in {Return("deny"), Return("ask")}) =>
    NamesOperationAndTarget(IF result.kind = "raise" THEN message(result)
                            ELSE FailureText(call, result),
                            call.operation, CheckedTarget(call))

\* C26 witness: under DEFAULT_RULESET the read of ".env", denied by a rule
\* whose description is "Protect sensitive files", returned
\* "Error: Permission denied: Protect sensitive files".
C26_Witness ==
  /\ BackendOver({"read"})
  /\ _ruleset = DEFAULT_RULESET
  /\ call.target = <<".", "e", "n", "v">>
  /\ BackendDecision(call) = Return("deny")
  /\ result = Return(<<"Error: ", "Permission denied: ", "Protect sensitive files">>)

\* Path(path).resolve() for a path given to the backend, relative to the
\* root unless absolute
Resolved(path) ==
  IF path # <<>> /\ path[1] = "/"
  THEN resolve(parts(path, <<>>), <<>>)
  ELSE resolve(_root \o parts(path, <<>>), <<>>)

\* The path lies in none of the allowed directories
Outside(path) ==
  \A k \in 1..Len(_allowed_directories) :
    ~relative_to(Resolved(path), _allowed_directories[k])

\* "Access denied: '{path}' is outside allowed directories ({allowed_str})"
AccessDenied(path) ==
  <<"Access denied: '">> \o path \o <<"' is outside allowed directories (">>
  \o str(_root) \o <<")">>

\* C27: in read, write and edit of a LocalBackend with a ruleset, a path
\* outside every allowed directory gives the "outside allowed directories"
\* access error of the method, and the call makes no call of the permission
\* checker and no file system call, whatever the ruleset and the fallback.
C27_AllowedDirectoriesFirst ==
  (/\ BackendOver({"read", "write", "edit"})
   /\ _ruleset # None
   /\ Outside(call.target)) =>
    /\ io = <<>>
    /\ result = Return(IF call.fn = "read" THEN <<"Error: ">> \o AccessDenied(call.target)
                       ELSE IF call.fn = "write"
                       THEN WriteResult(None, Some(AccessDenied(call.target)))
                       ELSE EditResult(None, Some(AccessDenied(call.target)), None))

\* C27 witness: under STRICT_RULESET with ask_fallback "error", where a
\* write inside the root raises PermissionError, the write of "../x"
\* returned the access error and the checker was not called.
C27_Witness ==
  /\ BackendOver({"write"})
  /\ _ruleset = STRICT_RULESET
  /\ _ask_fallback = "error"
  /\ call.target = <<".", ".", "/", "x">>
  /\ check_sync(_ruleset, "write", str(Resolved(call.target))) = Return("ask")
  /\ io = <<>>
  /\ result = Return(WriteResult(None, Some(<<"Access denied: '", ".", ".", "/", "x",
                                              "' is outside allowed directories (",
                                              "/", "w", ")">>)))

\* a == b for two values that may be of different kinds, a string and a
\* record
SameValue(a, b) == ToString(a) = ToString(b)

\* C28: for an operation name outside the seven operations,
\* get_operation_permissions raises or returns what it returns for an
\* operation that is not configured,
\* OperationPermissions(default=ruleset.default, rules=[]).
C28_UnknownOperationName ==
  (Over("get_operation_permissions") /\ call.operation \notin PermissionOperation) =>
    \/ result.kind = "raise"
    \/ SameValue(result.value, OperationPermissions(_ruleset["default"], <<>>))

\* C28 witness: get_operation_permissions("default") on a ruleset whose
\* default is ask returned the string "ask".
C28_Witness ==
  /\ Over("get_operation_permissions")
  /\ call.operation = "default"
  /\ _ruleset["default"] = "ask"
  /\ SameValue(result.value, "ask")

\* C29: compiling a rule's pattern never raises, so check_sync and
\* _find_matching_rule return a value for every ruleset, operation and
\* target.
C29_CompilationIsTotal ==
  (Over("check_sync") \/ Over("_find_matching_rule")) => result.kind = "return"

\* C29 witness: with the rule pattern "[z-a]" on read, check_sync("read",
\* "a") raised re.error.
C29_Witness ==
  /\ Over("check_sync")
  /\ _ruleset["read"] # None
  /\ _ruleset["read"][1].rules[1].pattern = <<"[", "z", "-", "a", "]">>
  /\ call.operation = "read"
  /\ call.target = <<"a">>
  /\ result = Raise("re.error")

\* C30: when the ask callback raises, or the caller awaiting check is
\* cancelled while the callback is pending, check ends with that exception
\* and does not return True, the callback is not invoked again, and the
\* checker's ruleset, callback and fallback stay as they are; when the caller
\* has taken the outcome nothing of the abandoned call is left, so a later
\* check is decided by the unchanged checker alone.
C30_FailsClosedAroundCallback ==
  [][/\ (/\ pc = "awaiting"
         /\ pc' = "done"
         /\ awaited' # None
         /\ awaited'[1].kind = "raise") =>
          /\ result' = awaited'[1]
          /\ result' # Return(TRUE)
          /\ invoked' = invoked
          /\ Len(invoked') = 1
     /\ _ruleset' = _ruleset
     /\ _ask_callback' = _ask_callback
     /\ _ask_fallback' = _ask_fallback
     /\ pc' = "idle" =>
          (call' = NoCall /\ result' = NoResult /\ invoked' = <<>> /\ awaited' = None)]_vars

\* C30 witness: the caller was cancelled while the callback, invoked once,
\* was pending, and check ended with CancelledError.
C30_Witness ==
  /\ pc = "done"
  /\ call.fn = "check"
  /\ Len(invoked) = 1
  /\ awaited = Some(Raise("CancelledError"))
  /\ result = Raise("CancelledError")

====
